---- MODULE Spec2Model ----
(***************************************************************************)
(* Verification model of the transformer tooling scripts:                  *)
(*   - Gpt2Tester.test_generation (gpt2_tester.py): the incremental decode *)
(*     loop that drives three runners step by step (specification SpecGen) *)
(*   - ConvInteger / QLinearConv (quantization/operators/conv.py): the     *)
(*     Conv rewrite rules of the quantizer pass (specification SpecConv),  *)
(*     QDQConv included; the subgraph ConvInteger emits is evaluated on    *)
(*     exact values in specification SpecNum.                              *)
(*   - MyGPT2LMHeadModel_BeamSearchStep.forward (gpt2_helper.py) driven by *)
(*     Gpt2Tester.update in beam mode, batch size 1 (specification         *)
(*     SpecBeam).  The per-beam top-k candidates of lines 86-95 are the    *)
(*     backend's answer and are drawn freely.                              *)
(*   - the inputs one Gpt2Tester feeds step after step, with a backend     *)
(*     that returns a cache of past length plus input length               *)
(*     (specification SpecRun).                                            *)
(*   - Gpt2Metric (gpt2_tester.py) as test_generation calls it for one     *)
(*     treatment: start_batch, eval_batch, end_batch (specification        *)
(*     SpecMetric) and add_latency (specification SpecLatency).            *)
(*                                                                         *)
(* test_generation calls Gpt2Helper.get_output_shapes / get_output_buffers *)
(* with keyword arguments (beam_size, step, has_beam_search,               *)
(* use_beam_search_step) that the definitions in gpt2_helper.py:259,296 do *)
(* not declare.  The decode loop is modelled against the helper its caller *)
(* is written for (a pure function of the shapes, with no effect on the    *)
(* loop control state).                                                    *)
(***************************************************************************)
EXTENDS Integers, Sequences, FiniteSets, TLC

\* ---------------------------------------------------------------- bounds
MaxSteps == 3
MaxBatch == 2
MaxInputs == 2
BeamSize == 2
VocabSize == 2
MaxLogit == 1

\* model.config.eos_token_id
eos_token_id == 0

Vocab == 0 .. (VocabSize - 1)
None == << >>
Unbound == -1

VARIABLES
    \* ---- test_generation
    max_steps,              \* parameter max_steps
    max_inputs,             \* parameter max_inputs
    use_beam_search_step,   \* parameter use_beam_search_step
    test_inputs,            \* the batch size of each test input
    gpc,                    \* position in test_generation
    input_i,                \* index i of the for loop over test_inputs (0-based)
    step,                   \* the Python local `step` (Unbound before its first assignment)
    steps_run,              \* iterations of `for step in range(max_steps)` taken for this input
    done,                   \* the tensor `done`, one flag per sequence of the batch
    torch_runner, onnx_runner, onnx_io_runner,
    onnx_metric, onnx_io_metric,
    eos_seen,               \* history: per sequence, torch top-1 was EOS at some step of this input
    \* ---- quantizer pass over the Conv nodes of a graph
    mode,                   \* which Conv operator class the pass uses
    per_channel,            \* quantizer.is_per_channel()
    quantization_params,    \* tensors with recorded (scale, zero-point)
    initializers,           \* names of model.initializer()
    new_nodes,              \* quantizer.new_nodes
    quantized_value_map,    \* quantizer.quantized_value_map
    qdq_markers,            \* the quantize/dequantize marker pairs the QDQ quantizer holds
    rewritten,              \* indexes of the Conv nodes whose quantize() returned
    cpc,                    \* "running", or "aborted" once a quantize() raised
    last,                   \* the last quantize() call: its node, outcome and the state before it
    \* ---- one Conv evaluated in floating point and through its ConvInteger subgraph
    conv_case,              \* the Conv node and the tensor values it is run on
    float_output,           \* output of the original Conv (None until computed)
    quant_output,           \* output of the emitted subgraph (None until computed)
    \* ---- one beam-mode runner driving the beam search step
    brun,                   \* the Gpt2Tester fields fed to forward
    bout,                   \* what the last forward call computed (None before the first)
    bsteps,                 \* forward calls made
    bpc,                    \* "forward", "update", or "raised" once forward raised
    \* ---- one runner and the inputs it feeds
    rrun,                   \* the Gpt2Tester fields that shape the next input
    rfed,                   \* what each inference so far was fed
    rpc,                    \* "infer" or "update"
    \* ---- one Gpt2Metric
    metric,                 \* the Gpt2Metric fields
    mrun,                   \* where the loop over inputs and steps stands
    mlast,                  \* the last Gpt2Metric call and what it was given
    mpc,                    \* "batch" between inputs, "step"
    \* ---- the latency buckets of one Gpt2Metric
    seq_len_latency,        \* Gpt2Metric.seq_len_latency
    llast,                  \* the last add_latency call
    \* ---- the output buffers of IO binding
    output_buffers,         \* name -> [id, nelement]: which tensor, and its capacity
    buf_run,                \* calls made, tensors allocated, and the last call
    \* ---- convert_to_onnx.main, from the opening of the input test file on
    main_run,               \* the file, main's locals, and its position
    \* ---- Gpt2Helper.test_parity
    parity_run              \* the arguments and the calls of one test case

gvars == << max_steps, max_inputs, use_beam_search_step, test_inputs, gpc, input_i, step,
            steps_run, done, torch_runner, onnx_runner, onnx_io_runner,
            onnx_metric, onnx_io_metric, eos_seen >>

cvars == << mode, per_channel, quantization_params, initializers, new_nodes,
            quantized_value_map, qdq_markers, rewritten, cpc, last >>

nvars == << conv_case, float_output, quant_output >>

bvars == << brun, bout, bsteps, bpc >>

rvars == << rrun, rfed, rpc >>

mvars == << metric, mrun, mlast, mpc >>

lvars == << seq_len_latency, llast >>

fvars == << output_buffers, buf_run >>
avars == << main_run >>
pvars == << parity_run >>

vars == << gvars, cvars, nvars, bvars, rvars, mvars, lvars, fvars, avars, pvars >>

\* the variables outside each part of the model
OutsideGen == << cvars, nvars, bvars, rvars, mvars, lvars, fvars, avars, pvars >>
OutsideConv == << gvars, nvars, bvars, rvars, mvars, lvars, fvars, avars, pvars >>
OutsideNum == << gvars, cvars, bvars, rvars, mvars, lvars, fvars, avars, pvars >>
OutsideBeam == << gvars, cvars, nvars, rvars, mvars, lvars, fvars, avars, pvars >>
OutsideRun == << gvars, cvars, nvars, bvars, mvars, lvars, fvars, avars, pvars >>
OutsideMetric == << gvars, cvars, nvars, bvars, rvars, lvars, fvars, avars, pvars >>
OutsideLatency == << gvars, cvars, nvars, bvars, rvars, mvars, fvars, avars, pvars >>
OutsideBuf == << gvars, cvars, nvars, bvars, rvars, mvars, lvars, avars, pvars >>
OutsideMain == << gvars, cvars, nvars, bvars, rvars, mvars, lvars, fvars, pvars >>
OutsideParity == << gvars, cvars, nvars, bvars, rvars, mvars, lvars, fvars, avars >>

\* ------------------------------------------------------------ helpers
All(s) == \A k \in DOMAIN s : s[k]

\* torch.argmax(row): the index of the first maximal entry
ArgMax(row) ==
    CHOOSE v \in DOMAIN row :
        /\ \A w \in DOMAIN row : row[w] <= row[v]
        /\ \A w \in DOMAIN row : (w < v) => row[w] < row[v]

\* Gpt2Tester.predict_next_token(logits) with top_k = 1
predict_next_token(logits) == [r \in DOMAIN logits |-> ArgMax(logits[r])]

\* ------------------------------------------------------------ Gpt2Metric
Gpt2Metric_init ==
    [ total_samples |-> 0, top_1_error |-> 0,
      batch_top1_error |-> None, n_end_batch |-> 0 ]

start_batch(m, batch_size) ==
    [ m EXCEPT !.total_samples = @ + batch_size,
               !.batch_top1_error = [r \in 1 .. batch_size |-> FALSE] ]

\* _eval_topk with top_k = 1
eval_top1_Overwrite(m, baseline, treatment) ==
    IF \A r \in DOMAIN baseline : baseline[r] = treatment[r]
    THEN m
    ELSE [ m EXCEPT !.batch_top1_error =
                [r \in DOMAIN @ |-> baseline[r] # treatment[r]] ]

eval_top1(m, baseline, treatment) ==
    IF \A r \in DOMAIN baseline : baseline[r] = treatment[r]
    THEN m
    ELSE [ m EXCEPT !.batch_top1_error =
                [r \in DOMAIN @ |-> @[r] \/ (baseline[r] # treatment[r])] ]

eval_batch(m, baseline, treatment) ==
    eval_top1(m, baseline.top_1_tokens, treatment.top_1_tokens)

end_batch(m) ==
    [ m EXCEPT !.top_1_error = @ + Cardinality({r \in DOMAIN m.batch_top1_error :
                                                   m.batch_top1_error[r]}),
               !.n_end_batch = @ + 1 ]

\* ------------------------------------------------------------ Gpt2Tester
\* Gpt2Tester.__init__: beam inputs start with one beam per sequence, all unfinished
Gpt2Tester_init(batch_size, has_beam_search) ==
    [ batch_size |-> batch_size,
      has_beam_search |-> has_beam_search,
      top_1_tokens |-> None,
      input_unfinished_sents |->
          IF has_beam_search THEN [r \in 1 .. batch_size |-> << TRUE >>] ELSE None,
      n_update |-> 0 ]

\* The outputs a backend may return for a runner's inputs.
\* Greedy model: logits, one row per sequence.
LogitRows == [Vocab -> 0 .. MaxLogit]

\* MyGPT2LMHeadModel_BeamSearchStep.forward (lines 98-120), per output beam slot j:
\* sel is the flat index selected among (input beams x beam_size) candidates and
\* tok the token of that candidate; a finished source beam only offers EOS.
SlotOk(in_unf_row, s) ==
    (~ in_unf_row[(s.sel \div BeamSize) + 1]) => s.tok = eos_token_id

BeamSlotChoices(runner) ==
    LET nb == Len(runner.input_unfinished_sents[1])
        Slot == [ sel : 0 .. (nb * BeamSize - 1), tok : Vocab ]
    IN  { sl \in [1 .. runner.batch_size -> [1 .. BeamSize -> Slot]] :
            \A r \in 1 .. runner.batch_size : \A j \in 1 .. BeamSize :
                SlotOk(runner.input_unfinished_sents[r], sl[r][j]) }

\* output_unfinished_sents = input_unfinished_sents.gather(1, selected_input_seq)
\*                           & next_token_ids.ne(eos_token_id)
output_unfinished_sents(in_unf, sl) ==
    [ r \in DOMAIN in_unf |->
        [ j \in 1 .. BeamSize |->
            in_unf[r][(sl[r][j].sel \div BeamSize) + 1] /\ sl[r][j].tok # eos_token_id ] ]

\* Gpt2Tester.update, greedy mode: top-1 tokens from the logits
update_greedy(runner, logits) ==
    [ runner EXCEPT !.top_1_tokens = predict_next_token(logits),
                    !.n_update = @ + 1 ]

\* Gpt2Tester.update, beam mode: output[-1] becomes input_unfinished_sents; the
\* top-1 "token" is the argmax of the (descending) output_log_probs, slot 0
update_beam(runner, sl) ==
    [ runner EXCEPT !.top_1_tokens = [r \in 1 .. runner.batch_size |-> 0],
                    !.input_unfinished_sents =
                        output_unfinished_sents(runner.input_unfinished_sents, sl),
                    !.n_update = @ + 1 ]

\* One backend call followed by runner.update(output, step, device)
Advance(runner, runner2) ==
    IF runner.has_beam_search
    THEN \E sl \in BeamSlotChoices(runner) : runner2 = update_beam(runner, sl)
    ELSE \E lg \in [1 .. runner.batch_size -> LogitRows] : runner2 = update_greedy(runner, lg)

\* ------------------------------------------------------ test_generation
BatchSizes(beam) == IF beam THEN {1} ELSE 1 .. MaxBatch

\* the quantizer pass is not running
ConvIdle ==
    /\ mode = "none"
    /\ per_channel = FALSE
    /\ quantization_params = {}
    /\ initializers = {}
    /\ new_nodes = << >>
    /\ quantized_value_map = << >>
    /\ qdq_markers = << >>
    /\ rewritten = {}
    /\ cpc = "idle"
    /\ last = None

\* test_generation is not running
GenIdle ==
    /\ max_steps = 0
    /\ max_inputs = 0
    /\ use_beam_search_step = FALSE
    /\ test_inputs = << >>
    /\ gpc = "idle"
    /\ input_i = 0
    /\ step = Unbound
    /\ steps_run = 0
    /\ done = None
    /\ torch_runner = None
    /\ onnx_runner = None
    /\ onnx_io_runner = None
    /\ onnx_metric = Gpt2Metric_init
    /\ onnx_io_metric = Gpt2Metric_init
    /\ eos_seen = None

\* no Conv is being evaluated
NumIdle ==
    /\ conv_case = None
    /\ float_output = None
    /\ quant_output = None

\* no beam search step is being driven
BeamIdle ==
    /\ brun = None
    /\ bout = None
    /\ bsteps = 0
    /\ bpc = "idle"

\* no runner is feeding inputs
RunIdle ==
    /\ rrun = None
    /\ rfed = << >>
    /\ rpc = "idle"

\* no separate Gpt2Metric is being driven
MetricIdle ==
    /\ metric = None
    /\ mrun = None
    /\ mlast = None
    /\ mpc = "idle"

\* no latency is being recorded
LatencyIdle ==
    /\ seq_len_latency = << >>
    /\ llast = None

\* no output buffer is allocated
BufIdle ==
    /\ output_buffers = << >>
    /\ buf_run = None

MainIdle == main_run = None

ParityIdle == parity_run = None

IdleOutsideGen == ConvIdle /\ NumIdle /\ BeamIdle /\ RunIdle /\ MetricIdle /\ LatencyIdle /\ BufIdle /\ MainIdle /\ ParityIdle
IdleOutsideConv == GenIdle /\ NumIdle /\ BeamIdle /\ RunIdle /\ MetricIdle /\ LatencyIdle /\ BufIdle /\ MainIdle /\ ParityIdle
IdleOutsideNum == GenIdle /\ ConvIdle /\ BeamIdle /\ RunIdle /\ MetricIdle /\ LatencyIdle /\ BufIdle /\ MainIdle /\ ParityIdle
IdleOutsideBeam == GenIdle /\ ConvIdle /\ NumIdle /\ RunIdle /\ MetricIdle /\ LatencyIdle /\ BufIdle /\ MainIdle /\ ParityIdle
IdleOutsideRun == GenIdle /\ ConvIdle /\ NumIdle /\ BeamIdle /\ MetricIdle /\ LatencyIdle /\ BufIdle /\ MainIdle /\ ParityIdle
IdleOutsideMetric == GenIdle /\ ConvIdle /\ NumIdle /\ BeamIdle /\ RunIdle /\ LatencyIdle /\ BufIdle /\ MainIdle /\ ParityIdle
IdleOutsideLatency == GenIdle /\ ConvIdle /\ NumIdle /\ BeamIdle /\ RunIdle /\ MetricIdle /\ BufIdle /\ MainIdle /\ ParityIdle
IdleOutsideBuf == GenIdle /\ ConvIdle /\ NumIdle /\ BeamIdle /\ RunIdle /\ MetricIdle /\ LatencyIdle /\ MainIdle /\ ParityIdle
IdleOutsideMain == GenIdle /\ ConvIdle /\ NumIdle /\ BeamIdle /\ RunIdle /\ MetricIdle /\ LatencyIdle /\ BufIdle /\ ParityIdle
IdleOutsideParity == GenIdle /\ ConvIdle /\ NumIdle /\ BeamIdle /\ RunIdle /\ MetricIdle /\ LatencyIdle /\ BufIdle /\ MainIdle

GenInit ==
    /\ max_steps \in 0 .. MaxSteps
    /\ max_inputs \in {0, 1}
    /\ use_beam_search_step \in BOOLEAN
    /\ \E n \in 1 .. MaxInputs : \E b \in BatchSizes(use_beam_search_step) :
           test_inputs = [k \in 1 .. n |-> b]
    /\ gpc = "for_input"
    /\ input_i = 0
    /\ step = Unbound
    /\ steps_run = 0
    /\ done = None
    /\ torch_runner = None
    /\ onnx_runner = None
    /\ onnx_io_runner = None
    /\ onnx_metric = Gpt2Metric_init
    /\ onnx_io_metric = Gpt2Metric_init
    /\ eos_seen = None
    /\ IdleOutsideGen

GenConfigUnchanged ==
    UNCHANGED << max_steps, max_inputs, use_beam_search_step, test_inputs, OutsideGen >>

\* lines 398-427: next test input, or leave the loop over test inputs
ForInput ==
    /\ gpc = "for_input"
    /\ GenConfigUnchanged
    /\ IF input_i >= Len(test_inputs) \/ (max_inputs > 0 /\ input_i = max_inputs)
       THEN /\ gpc' = "finished"
            /\ UNCHANGED << input_i, step, steps_run, done, torch_runner, onnx_runner,
                            onnx_io_runner, onnx_metric, onnx_io_metric, eos_seen >>
       ELSE LET batch_size == test_inputs[input_i + 1] IN
            /\ torch_runner' = Gpt2Tester_init(batch_size, use_beam_search_step)
            /\ onnx_runner' = Gpt2Tester_init(batch_size, use_beam_search_step)
            /\ onnx_io_runner' = Gpt2Tester_init(batch_size, use_beam_search_step)
            /\ onnx_metric' = start_batch(onnx_metric, batch_size)
            /\ onnx_io_metric' = start_batch(onnx_io_metric, batch_size)
            /\ done' = [r \in 1 .. batch_size |-> FALSE]
            /\ eos_seen' = [r \in 1 .. batch_size |-> FALSE]
            /\ steps_run' = 0
            /\ gpc' = "for_step"
            /\ UNCHANGED << input_i, step >>

\* line 428: `for step in range(max_steps)` binds step, or is exhausted
ForStep ==
    /\ gpc = "for_step"
    /\ GenConfigUnchanged
    /\ IF steps_run < max_steps
       THEN /\ step' = steps_run
            /\ steps_run' = steps_run + 1
            /\ gpc' = "torch"
       ELSE /\ gpc' = "after_loop"
            /\ UNCHANGED << step, steps_run >>
    /\ UNCHANGED << input_i, done, torch_runner, onnx_runner, onnx_io_runner,
                    onnx_metric, onnx_io_metric, eos_seen >>

\* lines 432-435: pytorch_inference, torch_runner.update
StepTorch ==
    /\ gpc = "torch"
    /\ GenConfigUnchanged
    /\ Advance(torch_runner, torch_runner')
    /\ gpc' = "onnx"
    /\ UNCHANGED << input_i, step, steps_run, done, onnx_runner, onnx_io_runner,
                    onnx_metric, onnx_io_metric, eos_seen >>

\* lines 437-441: onnxruntime_inference, onnx_runner.update
StepOnnx ==
    /\ gpc = "onnx"
    /\ GenConfigUnchanged
    /\ Advance(onnx_runner, onnx_runner')
    /\ gpc' = "onnx_io"
    /\ UNCHANGED << input_i, step, steps_run, done, torch_runner, onnx_io_runner,
                    onnx_metric, onnx_io_metric, eos_seen >>

\* lines 443-469: onnxruntime_inference_with_binded_io, onnx_io_runner.update
StepOnnxIo ==
    /\ gpc = "onnx_io"
    /\ GenConfigUnchanged
    /\ Advance(onnx_io_runner, onnx_io_runner')
    /\ gpc' = "eval"
    /\ UNCHANGED << input_i, step, steps_run, done, torch_runner, onnx_runner,
                    onnx_metric, onnx_io_metric, eos_seen >>

\* line 484: done | (not onnx_io_runner.input_unfinished_sents.all())
\* `not tensor.all()` is one Python bool, broadcast over the whole of done
DoneBeam(d, unf) ==
    [r \in DOMAIN d |-> d[r] \/ ~ (\A b \in DOMAIN unf : All(unf[b]))]

\* line 486: done | (torch_runner.top_1_tokens == eos_token_id).any()
\* `.any()` is one scalar, broadcast over the whole of done
DoneGreedy(d, top_1_tokens) ==
    [r \in DOMAIN d |-> d[r] \/ (\E q \in DOMAIN top_1_tokens : top_1_tokens[q] = eos_token_id)]

\* lines 480-489: eval_batch on both metrics, the done update and the break
StepEval ==
    /\ gpc = "eval"
    /\ GenConfigUnchanged
    /\ onnx_metric' = eval_batch(onnx_metric, torch_runner, onnx_runner)
    /\ onnx_io_metric' = eval_batch(onnx_io_metric, torch_runner, onnx_io_runner)
    /\ done' = IF use_beam_search_step
               THEN DoneBeam(done, onnx_io_runner.input_unfinished_sents)
               ELSE DoneGreedy(done, torch_runner.top_1_tokens)
    /\ eos_seen' = IF use_beam_search_step THEN eos_seen
                   ELSE [r \in DOMAIN eos_seen |->
                            eos_seen[r] \/ torch_runner.top_1_tokens[r] = eos_token_id]
    /\ gpc' = IF All(done') THEN "after_loop" ELSE "for_step"
    /\ UNCHANGED << input_i, step, steps_run, torch_runner, onnx_runner, onnx_io_runner >>

\* lines 491-493: the f-string reads `step`, which is unbound when the loop of the
\* first input never ran; then end_batch on both metrics
AfterLoop ==
    /\ gpc = "after_loop"
    /\ GenConfigUnchanged
    /\ IF step = Unbound
       THEN /\ gpc' = "raised"
            /\ UNCHANGED << input_i, onnx_metric, onnx_io_metric >>
       ELSE /\ onnx_metric' = end_batch(onnx_metric)
            /\ onnx_io_metric' = end_batch(onnx_io_metric)
            /\ input_i' = input_i + 1
            /\ gpc' = "for_input"
    /\ UNCHANGED << step, steps_run, done, torch_runner, onnx_runner, onnx_io_runner, eos_seen >>

GenNext ==
    \/ ForInput
    \/ ForStep
    \/ StepTorch
    \/ StepOnnx
    \/ StepOnnxIo
    \/ StepEval
    \/ AfterLoop

SpecGen == GenInit /\ [][GenNext]_vars

\* =================================================== quantizer Conv rewrites
\* ---- the graph: a Conv node is (name, inputs, output)
Conv(name, input, output) == [ name |-> name, input |-> input, output |-> output ]

\* The Conv nodes of the graph under quantization.  "w" and "b" are initializers;
\* "v" is a weight computed by the graph (not an initializer) unless Init makes it one.
\* The last node carries the name of the first.
GraphNodes ==
    << Conv("c1", << "x", "w" >>, "y1"),
       Conv("c2", << "x", "w", "b" >>, "y2"),
       Conv("",   << "x", "w" >>, "y3"),
       Conv("",   << "x", "w", "b" >>, "y4"),
       Conv("",   << "y1", "v" >>, "y5"),
       Conv("c6", << "x", "v", "b" >>, "y6"),
       Conv("c1", << "y1", "v" >>, "y7") >>

MaxRewrites == 3

\* ---- naming and records of the quantizer
QName(t) == t \o "_quantized"

ScaleName(t) == t \o "_scale"

ZpName(t) == t \o "_zero_point"

make_node(op_type, inputs, outputs, name) ==
    [ op_type |-> op_type, input |-> inputs, output |-> outputs, name |-> name ]

get_mul_node(inputs, output, name) == make_node("Mul", inputs, << output >>, name)

QuantizedValue(name, q_name, scale_name, zp_name, value_type) ==
    [ original_name |-> name, q_name |-> q_name, scale_name |-> scale_name,
      zp_name |-> zp_name, value_type |-> value_type ]

\* find_by_name(name, nodes): the first node so named, or None
find_by_name(name, nodes) ==
    IF \E k \in DOMAIN nodes : nodes[k].name = name
    THEN nodes[CHOOSE k \in DOMAIN nodes :
                  /\ nodes[k].name = name
                  /\ \A q \in DOMAIN nodes : nodes[q].name = name => k <= q]
    ELSE None

\* the quantizer state a rewrite reads and writes besides new_nodes
QState(inits, qmap) == [ initializers |-> inits, quantized_value_map |-> qmap ]

\* quantizer.quantize_inputs for one input tensor t.  A tensor that already has a
\* quantized-value entry reuses it; an initializer is quantized as a weight
\* (quantized tensor, scale and zero-point become initializers and the entry is
\* recorded at once); any other tensor gets a QuantizeLinear node, unless one was
\* emitted for it earlier in the pass.
quantize_input(st, nodes_so_far, t) ==
    IF t \in DOMAIN st.quantized_value_map
    THEN [ q |-> st.quantized_value_map[t].q_name,
           zp |-> st.quantized_value_map[t].zp_name,
           scale |-> st.quantized_value_map[t].scale_name,
           nodes |-> << >>, st |-> st ]
    ELSE IF t \in st.initializers
    THEN [ q |-> QName(t), zp |-> ZpName(t), scale |-> ScaleName(t), nodes |-> << >>,
           st |-> QState(st.initializers \cup { QName(t), ScaleName(t), ZpName(t) },
                         (t :> QuantizedValue(t, QName(t), ScaleName(t), ZpName(t), "Weight"))
                             @@ st.quantized_value_map) ]
    ELSE [ q |-> QName(t), zp |-> ZpName(t), scale |-> ScaleName(t),
           nodes |-> IF find_by_name(t \o "_QuantizeLinear", nodes_so_far) = None
                     THEN << make_node("QuantizeLinear", << t, ScaleName(t), ZpName(t) >>,
                                       << QName(t) >>, t \o "_QuantizeLinear") >>
                     ELSE << >>,
           st |-> st ]

\* quantizer.quantize_inputs(node, indices), indices = [0] or [0, 1]: the lists
\* (quantized_input_names, zero_point_names, scale_names, nodes)
quantize_inputs_one(a) ==
    [ quantized_input_names |-> << a.q >>, zero_point_names |-> << a.zp >>,
      scale_names |-> << a.scale >>, nodes |-> a.nodes, st |-> a.st ]

quantize_inputs_two(a, b) ==
    [ quantized_input_names |-> << a.q, b.q >>, zero_point_names |-> << a.zp, b.zp >>,
      scale_names |-> << a.scale, b.scale >>, nodes |-> a.nodes \o b.nodes, st |-> b.st ]

quantize_inputs_next(nds, node, a) ==
    quantize_inputs_two(a, quantize_input(a.st, nds \o a.nodes, node.input[2]))

quantize_inputs(st, nds, node, indices) ==
    IF indices = << 0 >>
    THEN quantize_inputs_one(quantize_input(st, nds, node.input[1]))
    ELSE quantize_inputs_next(nds, node, quantize_input(st, nds, node.input[1]))

\* quantizer.quantize_weight_per_channel(weight, INT8, 0): the tuple
\* (quantized name, zero-point name, scale name); memoized like quantize_inputs
quantize_weight_per_channel(st, t) ==
    IF t \in DOMAIN st.quantized_value_map
    THEN [ tuple |-> << st.quantized_value_map[t].q_name, st.quantized_value_map[t].zp_name,
                        st.quantized_value_map[t].scale_name >>, st |-> st ]
    ELSE [ tuple |-> << QName(t), ZpName(t), ScaleName(t) >>,
           st |-> QState(st.initializers \cup { QName(t), ScaleName(t), ZpName(t) },
                         (t :> QuantizedValue(t, QName(t), ScaleName(t), ZpName(t), "Weight"))
                             @@ st.quantized_value_map) ]

\* quantizer.quantize_bias_static(bias, input, weight): the quantized bias name;
\* the int32 bias and its entry are recorded at once
quantize_bias_static(st, bias) ==
    IF bias \in DOMAIN st.quantized_value_map
    THEN [ name |-> st.quantized_value_map[bias].q_name, st |-> st ]
    ELSE [ name |-> QName(bias),
           st |-> QState(st.initializers \cup { QName(bias), ScaleName(bias), ZpName(bias) },
                         (bias :> QuantizedValue(bias, QName(bias), ScaleName(bias),
                                                 ZpName(bias), "Bias"))
                             @@ st.quantized_value_map) ]

\* quantizer._get_quantization_params(tensor): (data_found, scale name, zero-point name)
get_quantization_params(params, t) ==
    [ data_found |-> t \in params, scale_name |-> ScaleName(t), zp_name |-> ZpName(t) ]

is_input_a_weight(st, t) == t \in st.initializers

\* the outcome of one quantize() call
Raised(error, tensor, nodes, st) ==
    [ raised |-> TRUE, error |-> error, tensor |-> tensor, nodes |-> nodes, st |-> st ]

Returned(nodes, st) ==
    [ raised |-> FALSE, error |-> "", tensor |-> "", nodes |-> nodes, st |-> st ]

\* ------------------------------------------------------------ ConvInteger
has_bias(node) == Len(node.input) = 3


\* faulty variant: add_bias without the initializer check
add_bias_Unchecked(node, st, nodes, scaled_output) ==
    Returned(nodes \o << make_node("Reshape",
                                   << node.input[3], node.output \o "_bias_reshape_shape" >>,
                                   << node.output \o "_bias_reshape_output" >>, ""),
                         make_node("Add",
                                   << scaled_output, node.output \o "_bias_reshape_output" >>,
                                   << node.output >>, node.output \o "_bias_add") >>,
             QState(st.initializers \cup { node.output \o "_bias_reshape_shape" },
                    st.quantized_value_map))

\* ConvInteger.add_bias: the weight must be an initializer (its rank shapes the
\* Reshape); then the shape initializer, the Reshape and the Add are emitted
add_bias(node, st, nodes, scaled_output) ==
    IF node.input[2] \notin st.initializers
    THEN Raised("Expected to be an initializer", node.input[2], nodes, st)
    ELSE LET output == node.output
             reshape_input_shape == output \o "_bias_reshape_shape"
             reshape_output == output \o "_bias_reshape_output"
             reshape_node == make_node("Reshape", << node.input[3], reshape_input_shape >>,
                                       << reshape_output >>, "")
             add_node == make_node("Add", << scaled_output, reshape_output >>,
                                   << output >>, output \o "_bias_add")
         IN  Returned(nodes \o << reshape_node, add_node >>,
                      QState(st.initializers \cup { reshape_input_shape },
                             st.quantized_value_map))

conv_integer_name(node) == IF node.name # "" THEN node.name \o "_quant" ELSE ""

\* lines 75-78: the name the scale-product Mul is memoized under
scales_mul_op(cname, scale_names) ==
    IF cname # "" THEN cname \o "_scales_mul"
    ELSE scale_names[1] \o "_" \o scale_names[2] \o "_mul"


\* faulty variant: the scale-product Mul is emitted without looking it up
scales_mul_nodes_NoLookup(op, scale_names, nn) ==
    << get_mul_node(scale_names, op \o ":0", op) >>

\* lines 80-83: the scale-product Mul is emitted unless new_nodes holds a node of that name
scales_mul_nodes(op, scale_names, nn) ==
    IF find_by_name(op, nn) = None
    THEN << get_mul_node(scale_names, op \o ":0", op) >>
    ELSE << >>

\* line 85: scales_mul_node.output[0]
scales_mul_op_output(op, nn) ==
    IF find_by_name(op, nn) = None THEN op \o ":0" ELSE find_by_name(op, nn).output[1]


\* faulty variant: the output-scale Mul always takes the Conv's output name
scaled_output_name_NoBiasCase(node) == node.output

\* lines 87-88
scaled_output_name(node) ==
    IF ~ has_bias(node) THEN node.output ELSE node.output \o "quant_scaled_output"

\* line 98: `self.quantizer.new_nodes += nodes` is reached only when nothing raised
ConvInteger_new_nodes(res, nn) == IF res.raised THEN nn ELSE nn \o res.nodes

\* the outcome of quantize(): what it emitted, the quantizer state and new_nodes
ConvInteger_outcome(res, nn) ==
    [ raised |-> res.raised, error |-> res.error, tensor |-> res.tensor,
      nodes |-> IF res.raised THEN << >> ELSE res.nodes, st |-> res.st,
      new_nodes |-> ConvInteger_new_nodes(res, nn) ]

\* faulty variant: the ConvInteger node is given the two zero-points in the other order
ConvInteger_emit_ZpSwapped(node, nn, qi) ==
    LET conv_integer_output == node.output \o "_output_quantized"
        cname == conv_integer_name(node)
        conv_integer_node == make_node("ConvInteger",
                                       qi.quantized_input_names
                                           \o << qi.zero_point_names[2], qi.zero_point_names[1] >>,
                                       << conv_integer_output >>, cname)
        cast_op_output == conv_integer_output \o "_cast_output"
        cast_node == make_node("Cast", << conv_integer_output >>, << cast_op_output >>,
                               conv_integer_output \o "_cast")
        op == scales_mul_op(cname, qi.scale_names)
        output_scale_mul_op == IF cname # "" THEN cname \o "_output_scale_mul" ELSE ""
        nodes == qi.nodes \o << conv_integer_node, cast_node >>
                     \o scales_mul_nodes(op, qi.scale_names, nn)
                     \o << get_mul_node(<< cast_op_output, scales_mul_op_output(op, nn) >>,
                                        scaled_output_name(node), output_scale_mul_op) >>
    IN  IF has_bias(node)
        THEN add_bias(node, qi.st, nodes, scaled_output_name(node))
        ELSE Returned(nodes, qi.st)

\* ConvInteger.quantize, lines 56-96, qi being the result of quantize_inputs
ConvInteger_emit(node, nn, qi) ==
    LET conv_integer_output == node.output \o "_output_quantized"
        cname == conv_integer_name(node)
        conv_integer_node == make_node("ConvInteger",
                                       qi.quantized_input_names \o qi.zero_point_names,
                                       << conv_integer_output >>, cname)
        cast_op_output == conv_integer_output \o "_cast_output"
        cast_node == make_node("Cast", << conv_integer_output >>, << cast_op_output >>,
                               conv_integer_output \o "_cast")
        op == scales_mul_op(cname, qi.scale_names)
        output_scale_mul_op == IF cname # "" THEN cname \o "_output_scale_mul" ELSE ""
        nodes == qi.nodes \o << conv_integer_node, cast_node >>
                     \o scales_mul_nodes(op, qi.scale_names, nn)
                     \o << get_mul_node(<< cast_op_output, scales_mul_op_output(op, nn) >>,
                                        scaled_output_name(node), output_scale_mul_op) >>
    IN  IF has_bias(node)
        THEN add_bias(node, qi.st, nodes, scaled_output_name(node))
        ELSE Returned(nodes, qi.st)

\* ConvInteger.quantize
ConvInteger_quantize(node, st, nn) ==
    ConvInteger_outcome(
        ConvInteger_emit(node, nn, quantize_inputs(st, nn, node, << 0, 1 >>)), nn)

\* ------------------------------------------------------------ QLinearConv
\* lines 112-116: the per-channel weight tuple appended to the three lists
append_weight_tuple(qi, quant_weight_tuple) ==
    [ quantized_input_names |-> Append(qi.quantized_input_names, quant_weight_tuple.tuple[1]),
      zero_point_names |-> Append(qi.zero_point_names, quant_weight_tuple.tuple[2]),
      scale_names |-> Append(qi.scale_names, quant_weight_tuple.tuple[3]),
      nodes |-> qi.nodes, st |-> quant_weight_tuple.st ]

quantize_per_channel(node, qi) ==
    append_weight_tuple(qi, quantize_weight_per_channel(qi.st, node.input[2]))

\* lines 109-119: data and weight, the weight per channel when it is an
\* initializer and the quantizer is per-channel
QLinearConv_quantize_inputs(node, st, nn, pch) ==
    IF is_input_a_weight(st, node.input[2]) /\ pch
    THEN quantize_per_channel(node, quantize_inputs(st, nn, node, << 0 >>))
    ELSE quantize_inputs(st, nn, node, << 0, 1 >>)


\* faulty variant: scale and zero-point of each input appended in the other order
qlinear_conv_inputs_Swapped(q_names, scale_names, zp_names, out_scale, out_zp, bias_present, q_bias) ==
    << q_names[1], zp_names[1], scale_names[1],
       q_names[2], zp_names[2], scale_names[2],
       out_scale, out_zp >>
    \o (IF bias_present THEN << q_bias >> ELSE << >>)

\* lines 139-154
qlinear_conv_inputs(q_names, scale_names, zp_names, out_scale, out_zp, bias_present, q_bias) ==
    << q_names[1], scale_names[1], zp_names[1],
       q_names[2], scale_names[2], zp_names[2],
       out_scale, out_zp >>
    \o (IF bias_present THEN << q_bias >> ELSE << >>)


\* faulty variant: the data_found flag is not checked
output_params_missing_Ignored(data_found) == FALSE

\* line 129
output_params_missing(data_found) == ~ data_found


\* faulty variant: the entry records the zero-point name as scale and the scale name as zero-point
q_output_Swapped(node, qlinear_conv_output, output_scale_name, output_zp_name) ==
    QuantizedValue(node.output, qlinear_conv_output, output_zp_name, output_scale_name, "Input")

\* lines 161-162
q_output(node, qlinear_conv_output, output_scale_name, output_zp_name) ==
    QuantizedValue(node.output, qlinear_conv_output, output_scale_name, output_zp_name, "Input")

\* line 165 is reached only when line 129 did not raise
QLinearConv_new_nodes(res, nn) == IF res.raised THEN nn ELSE nn \o res.nodes

QLinearConv_outcome(res, nn) ==
    [ raised |-> res.raised, error |-> res.error, tensor |-> res.tensor,
      nodes |-> IF res.raised THEN << >> ELSE res.nodes, st |-> res.st,
      new_nodes |-> QLinearConv_new_nodes(res, nn) ]

\* lines 126-163, given the quantized inputs qi, the quantized bias qb and the
\* looked-up output parameters
QLinearConv_emit(node, qi, qb, found) ==
    LET qlinear_conv_output == node.output \o "_quantized"
        qlinear_conv_name == IF node.name # "" THEN node.name \o "_quant" ELSE ""
        nodes ==
            Append(qi.nodes,
                   make_node("QLinearConv",
                             qlinear_conv_inputs(qi.quantized_input_names, qi.scale_names,
                                                 qi.zero_point_names, found.scale_name,
                                                 found.zp_name, Len(node.input) = 3, qb.name),
                             << qlinear_conv_output >>, qlinear_conv_name))
    IN  IF output_params_missing(found.data_found)
        THEN Raised("Quantization parameters for output not specified",
                    node.output, nodes, qb.st)
        ELSE Returned(nodes,
                      QState(qb.st.initializers,
                             (node.output :> q_output(node, qlinear_conv_output,
                                                      found.scale_name, found.zp_name))
                                 @@ qb.st.quantized_value_map))

\* lines 121-127: the bias is quantized before the output parameters are looked up
QLinearConv_bias(node, params, qi) ==
    QLinearConv_emit(node, qi,
                     IF Len(node.input) = 3
                     THEN quantize_bias_static(qi.st, node.input[3])
                     ELSE [ name |-> "", st |-> qi.st ],
                     get_quantization_params(params, node.output))

\* QLinearConv.quantize
QLinearConv_quantize(node, st, nn, pch, params) ==
    QLinearConv_outcome(
        QLinearConv_bias(node, params, QLinearConv_quantize_inputs(node, st, nn, pch)), nn)

\* ------------------------------------------------------------ QDQConv
\* a quantize/dequantize marker pair on tensor t
Marker(t, kind) == [ tensor |-> t, kind |-> kind ]

Annotated(markers, t) == \E q \in DOMAIN markers : markers[q].tensor = t

\* quantizer.quantize_tensor(t): t gets a marker pair unless it has one already
quantize_tensor(markers, t) ==
    IF Annotated(markers, t) THEN markers ELSE Append(markers, Marker(t, "per_tensor"))

\* quantizer.quantize_tensor_per_channel(t, 0): one scale per output channel, for
\* an initializer; any other tensor is annotated per tensor
quantize_tensor_per_channel(markers, inits, t) ==
    IF Annotated(markers, t) THEN markers
    ELSE IF t \in inits THEN Append(markers, Marker(t, "per_channel"))
    ELSE Append(markers, Marker(t, "per_tensor"))

\* quantizer.quantize_bias_tensor(bias, input, weight): scale derived from the
\* data and weight scales
quantize_bias_tensor(markers, bias) ==
    IF Annotated(markers, bias) THEN markers ELSE Append(markers, Marker(bias, "bias"))

\* lines 176-180
QDQConv_weight(node, markers, inits, pch) ==
    IF pch
    THEN quantize_tensor_per_channel(markers, inits, node.input[2])
    ELSE quantize_tensor(markers, node.input[2])

\* lines 182-183
QDQConv_bias(node, markers) ==
    IF Len(node.input) = 3 THEN quantize_bias_tensor(markers, node.input[3]) ELSE markers

\* faulty variant: the Conv would also be re-emitted into new_nodes
QDQConv_new_nodes_Emitting(node, nn) ==
    Append(nn, make_node("Conv", node.input, << node.output >>, node.name))

\* QDQConv.quantize has no statement on quantizer.new_nodes
QDQConv_new_nodes(node, nn) == nn

\* QDQConv.quantize, lines 172-183
QDQConv_quantize(node, markers, inits, nn, pch) ==
    [ markers |-> QDQConv_bias(node,
                      QDQConv_weight(node, quantize_tensor(markers, node.input[1]), inits, pch)),
      new_nodes |-> QDQConv_new_nodes(node, nn) ]

\* ------------------------------------------------------------ the pass
OutputNames == { GraphNodes[k].output : k \in DOMAIN GraphNodes }

\* a fresh quantizer: the static (QLinearOps) modes have recorded parameters for
\* some of the Conv outputs; "v" may or may not be an initializer
ConvInit ==
    /\ mode \in { "IntegerOps", "QLinearOps", "QDQ" }
    /\ per_channel \in BOOLEAN
    /\ quantization_params \in (IF mode = "QLinearOps" THEN SUBSET OutputNames ELSE { {} })
    /\ initializers \in { { "w", "b" }, { "w", "b", "v" } }
    /\ new_nodes = << >>
    /\ quantized_value_map = << >>
    /\ qdq_markers = << >>
    /\ rewritten = {}
    /\ cpc = "running"
    /\ last = None
    /\ IdleOutsideConv

\* the pass visits the Conv nodes in graph order; a raise aborts the pass
Visit(k, op, res) ==
    /\ cpc = "running"
    /\ Cardinality(rewritten) < MaxRewrites
    /\ \A q \in rewritten : q < k
    /\ new_nodes' = res.new_nodes
    /\ initializers' = res.st.initializers
    /\ quantized_value_map' = res.st.quantized_value_map
    /\ rewritten' = IF res.raised THEN rewritten ELSE rewritten \cup { k }
    /\ cpc' = IF res.raised THEN "aborted" ELSE "running"
    /\ last' = [ k |-> k, node |-> GraphNodes[k], op |-> op, raised |-> res.raised,
                 error |-> res.error, tensor |-> res.tensor, nodes |-> res.nodes,
                 pre_new_nodes |-> new_nodes, pre_initializers |-> initializers,
                 pre_quantized_value_map |-> quantized_value_map ]
    /\ UNCHANGED << mode, per_channel, quantization_params, qdq_markers, OutsideConv >>

ConvIntegerRewrite(k) ==
    /\ mode = "IntegerOps"
    /\ Visit(k, "ConvInteger",
             ConvInteger_quantize(GraphNodes[k], QState(initializers, quantized_value_map),
                                  new_nodes))

QLinearConvRewrite(k) ==
    /\ mode = "QLinearOps"
    /\ Visit(k, "QLinearConv",
             QLinearConv_quantize(GraphNodes[k], QState(initializers, quantized_value_map),
                                  new_nodes, per_channel, quantization_params))

\* the pass calls QDQConv.quantize on the Conv nodes in graph order
QDQVisit(k, res) ==
    /\ cpc = "running"
    /\ Cardinality(rewritten) < MaxRewrites
    /\ \A q \in rewritten : q < k
    /\ qdq_markers' = res.markers
    /\ new_nodes' = res.new_nodes
    /\ rewritten' = rewritten \cup { k }
    /\ last' = [ k |-> k, node |-> GraphNodes[k], op |-> "QDQConv", raised |-> FALSE,
                 error |-> "", tensor |-> "", nodes |-> << >>,
                 pre_new_nodes |-> new_nodes, pre_initializers |-> initializers,
                 pre_quantized_value_map |-> quantized_value_map ]
    /\ UNCHANGED << mode, per_channel, quantization_params, initializers,
                    quantized_value_map, cpc, OutsideConv >>

QDQConvRewrite(k) ==
    /\ mode = "QDQ"
    /\ QDQVisit(k, QDQConv_quantize(GraphNodes[k], qdq_markers, initializers, new_nodes,
                                    per_channel))

ConvNext ==
    \/ \E k \in DOMAIN GraphNodes : ConvIntegerRewrite(k)
    \/ \E k \in DOMAIN GraphNodes : QLinearConvRewrite(k)
    \/ \E k \in DOMAIN GraphNodes : QDQConvRewrite(k)

SpecConv == ConvInit /\ [][ConvNext]_vars

\* ------------------------------------------- the emitted subgraph, evaluated
\* Floating-point tensors are held exactly, in units of 1/FP; every tensor is a
\* sequence (a scalar has length 1, the weight is a sequence of channel rows).
MaxQ == 2
MaxZp == 1
FP == 4

\* (output channels, kernel length) of the weight of the Conv under evaluation
weight_dims == << 2, 2 >>

FMul(a, b) == (a * b) \div FP

Bcast(t, k) == IF Len(t) = 1 THEN t[1] ELSE t[k]

BcastLen(a, b) == IF Len(a) >= Len(b) THEN Len(a) ELSE Len(b)

\* round(n / d) for d > 0
Round(n, d) == (2 * n + d) \div (2 * d)

Clamp(v, lo, hi) == IF v < lo THEN lo ELSE IF v > hi THEN hi ELSE v

RECURSIVE Dot(_, _, _, _, _)
Dot(a, b, za, zb, k) ==
    IF k = 0 THEN 0 ELSE Dot(a, b, za, zb, k - 1) + (a[k] - za) * (b[k] - zb)

\* the ONNX operators of the subgraph
QuantizeLinearOp(a, scale, zp) ==
    [ k \in DOMAIN a |-> Clamp(Round(a[k], scale[1]) + zp[1], 0, 255) ]

ConvIntegerOp(xq, wq, x_zp, w_zp) ==
    [ c \in DOMAIN wq |-> Dot(xq, wq[c], x_zp[1], w_zp[1], Len(xq)) ]

CastOp(a) == [ k \in DOMAIN a |-> a[k] * FP ]

MulOp(a, b) == [ k \in 1 .. BcastLen(a, b) |-> FMul(Bcast(a, k), Bcast(b, k)) ]

AddOp(a, b) == [ k \in 1 .. BcastLen(a, b) |-> Bcast(a, k) + Bcast(b, k) ]

\* Reshape of the per-channel bias to (1, -1, 1, ...): the values, along the channel axis
ReshapeOp(a, shape) == a

EvalNode(n, env) ==
    CASE n.op_type = "QuantizeLinear" ->
            QuantizeLinearOp(env[n.input[1]], env[n.input[2]], env[n.input[3]])
      [] n.op_type = "ConvInteger" ->
            ConvIntegerOp(env[n.input[1]], env[n.input[2]], env[n.input[3]], env[n.input[4]])
      [] n.op_type = "Cast" -> CastOp(env[n.input[1]])
      [] n.op_type = "Mul" -> MulOp(env[n.input[1]], env[n.input[2]])
      [] n.op_type = "Add" -> AddOp(env[n.input[1]], env[n.input[2]])
      [] n.op_type = "Reshape" -> ReshapeOp(env[n.input[1]], env[n.input[2]])

\* the nodes run in the order they were emitted
RECURSIVE RunNodes(_, _)
RunNodes(nodes, env) ==
    IF nodes = << >> THEN env
    ELSE RunNodes(Tail(nodes), (Head(nodes).output[1] :> EvalNode(Head(nodes), env)) @@ env)

\* dequantized values: (q - zero_point) * scale
Dequantize(q, zp, scale) == [ k \in DOMAIN q |-> (q[k] - zp) * scale ]

\* the graph inputs and initializers the subgraph reads
NumEnv(cs) ==
    ("x" :> Dequantize(cs.x_q, cs.x_zp, cs.x_scale))
    @@ (ScaleName("x") :> << cs.x_scale >>) @@ (ZpName("x") :> << cs.x_zp >>)
    @@ (QName("w") :> cs.w_q)
    @@ (ScaleName("w") :> << cs.w_scale >>) @@ (ZpName("w") :> << cs.w_zp >>)
    @@ ("b" :> cs.bias)
    @@ (cs.node.output \o "_bias_reshape_shape" :> << >>)

\* the original floating Conv: sum over the kernel of data * weight, plus bias
FloatConv(cs) ==
    LET x == Dequantize(cs.x_q, cs.x_zp, cs.x_scale)
        W == [ c \in DOMAIN cs.w_q |-> Dequantize(cs.w_q[c], cs.w_zp, cs.w_scale) ]
    IN  [ c \in DOMAIN W |->
            (Dot(x, W[c], 0, 0, Len(x)) \div FP)
            + (IF has_bias(cs.node) THEN cs.bias[c] ELSE 0) ]

\* the subgraph ConvInteger.quantize emits for the Conv, run on the same values
QuantizedConv(cs) ==
    RunNodes(ConvInteger_quantize(cs.node, QState({ "w", "b" }, << >>), << >>).nodes,
             NumEnv(cs))[cs.node.output]

NumNodes ==
    { Conv("c", << "x", "w" >>, "y"), Conv("", << "x", "w" >>, "y"),
      Conv("c", << "x", "w", "b" >>, "y"), Conv("", << "x", "w", "b" >>, "y") }

BiasValues(node) ==
    IF has_bias(node) THEN [ 1 .. weight_dims[1] -> { -1, 2 } ] ELSE { << >> }

NumInit ==
    /\ \E node \in NumNodes :
       \E x_q \in [ 1 .. weight_dims[2] -> 0 .. MaxQ ] :
       \E w_q \in [ 1 .. weight_dims[1] -> [ 1 .. weight_dims[2] -> { 0, MaxQ } ] ] :
       \E x_zp, w_zp \in 0 .. MaxZp :
       \E x_scale \in { FP \div 2, FP } :
       \E w_scale \in { FP \div 2, 2 * FP } :
       \E bias \in BiasValues(node) :
           conv_case = [ node |-> node, x_q |-> x_q, w_q |-> w_q, x_zp |-> x_zp,
                         w_zp |-> w_zp, x_scale |-> x_scale, w_scale |-> w_scale,
                         bias |-> bias ]
    /\ float_output = None
    /\ quant_output = None
    /\ IdleOutsideNum

RunFloatConv ==
    /\ float_output = None
    /\ float_output' = FloatConv(conv_case)
    /\ UNCHANGED << conv_case, quant_output, OutsideNum >>

RunQuantizedConv ==
    /\ quant_output = None
    /\ quant_output' = QuantizedConv(conv_case)
    /\ UNCHANGED << conv_case, float_output, OutsideNum >>

NumNext == RunFloatConv \/ RunQuantizedConv

SpecNum == NumInit /\ [][NumNext]_vars

\* ------------------------------- MyGPT2LMHeadModel_BeamSearchStep.forward
\* Batch size 1: tensors of shape (batch, beam, ...) are sequences over the beams.
\* Log-probabilities are integers <= 0; NegInf stands for -numpy.inf.
MaxLp == 1
MaxBeamSteps == 2
NegInf == -99

LogProbs == (0 - MaxLp) .. 0

LpAdd(a, b) == IF a = NegInf \/ b = NegInf THEN NegInf ELSE a + b

\* torch.topk(vals, k, largest=True, sorted=True) over the 0-based positions of
\* vals: every order torch may return when values tie
TopKs(vals, k) ==
    { sel \in [ 1 .. k -> DOMAIN vals ] :
        /\ \A a, b \in 1 .. k : a < b => (sel[a] # sel[b] /\ vals[sel[a]] >= vals[sel[b]])
        /\ \A e \in DOMAIN vals :
              (\A a \in 1 .. k : sel[a] # e) => vals[e] <= vals[sel[k]] }

\* line 85: past[i].index_select(1, beam_select_idx[0]) raises when an index is
\* not a row of the cache
index_select_ok(past, idx) == \A j \in DOMAIN idx : idx[j] < Len(past)

index_select(past, idx) == [ j \in DOMAIN idx |-> past[idx[j] + 1] ]

\* lines 86-91: the cache returned for row r is the cache fed for it plus the
\* tokens fed for it
present_flat(past, input_ids) == [ r \in DOMAIN input_ids |-> past[r] \o input_ids[r] ]

\* faulty variant: line 99 left out, a finished beam keeps no candidate
mask_log_probs_NoZero(next_token_log_probs, input_unfinished_sents) ==
    [ i \in DOMAIN next_token_log_probs |->
        [ k \in DOMAIN next_token_log_probs[i] |->
            IF input_unfinished_sents[i] THEN next_token_log_probs[i][k] ELSE NegInf ] ]

\* lines 97-99
mask_log_probs(next_token_log_probs, input_unfinished_sents) ==
    [ i \in DOMAIN next_token_log_probs |->
        [ k \in DOMAIN next_token_log_probs[i] |->
            IF input_unfinished_sents[i] THEN next_token_log_probs[i][k]
            ELSE IF k = 1 THEN 0 ELSE NegInf ] ]

\* line 100
mask_token_ids(next_token_ids, input_unfinished_sents) ==
    [ i \in DOMAIN next_token_ids |->
        [ k \in DOMAIN next_token_ids[i] |->
            IF input_unfinished_sents[i] THEN next_token_ids[i][k] ELSE eos_token_id ] ]

\* lines 102, 105: input_log_probs.unsqueeze(-1) + next_token_log_probs, viewed
\* flat with 0-based index beam * beam_size + candidate
output_log_probs_flat(input_log_probs, next_token_log_probs) ==
    [ f \in 0 .. (Len(input_log_probs) * BeamSize - 1) |->
        LpAdd(input_log_probs[(f \div BeamSize) + 1],
              next_token_log_probs[(f \div BeamSize) + 1][(f % BeamSize) + 1]) ]

\* line 109
selected_input_seq(selected_index_flat) ==
    [ j \in DOMAIN selected_index_flat |-> selected_index_flat[j] \div BeamSize ]

\* line 110
gather_token_ids(next_token_ids, selected_index_flat) ==
    [ j \in DOMAIN selected_index_flat |->
        next_token_ids[(selected_index_flat[j] \div BeamSize) + 1]
                      [(selected_index_flat[j] % BeamSize) + 1] ]

\* lines 112, 121: the history of the selected beam, then the new token
next_input_ids(input_ids, sel_seq, tokens) ==
    [ j \in DOMAIN sel_seq |-> Append(input_ids[sel_seq[j] + 1], tokens[j]) ]

\* lines 117-118
beam_output_unfinished_sents_NoEos(input_unfinished_sents, sel_seq, tokens) ==
    [ j \in DOMAIN sel_seq |-> input_unfinished_sents[sel_seq[j] + 1] ]

beam_output_unfinished_sents(input_unfinished_sents, sel_seq, tokens) ==
    [ j \in DOMAIN sel_seq |->
        input_unfinished_sents[sel_seq[j] + 1] /\ tokens[j] # eos_token_id ]

\* the index returned to the caller as third output (line 125)
returned_select_idx(selected_index_flat) == selected_index_flat

\* forward, lines 96-125, from the per-beam sorted candidates (lp, ids), the
\* re-ordered cache and the flat selection of line 106
forward_output(r, past_used, lp, ids, sel) ==
    [ input_ids |-> next_input_ids(r.input_ids, selected_input_seq(sel),
                                   gather_token_ids(mask_token_ids(ids, r.input_unfinished_sents), sel)),
      present_flat |-> present_flat(past_used, r.input_ids),
      selected_index_flat |-> returned_select_idx(sel),
      output_log_probs |->
          [ j \in DOMAIN sel |->
              output_log_probs_flat(r.input_log_probs,
                                    mask_log_probs(lp, r.input_unfinished_sents))[sel[j]] ],
      output_unfinished_sents |->
          beam_output_unfinished_sents(
              r.input_unfinished_sents, selected_input_seq(sel),
              gather_token_ids(mask_token_ids(ids, r.input_unfinished_sents), sel)),
      \* what the step worked on
      in_unfinished_sents |-> r.input_unfinished_sents,
      in_log_probs |-> r.input_log_probs,
      next_token_log_probs |-> mask_log_probs(lp, r.input_unfinished_sents),
      next_token_ids |-> mask_token_ids(ids, r.input_unfinished_sents),
      selected_input_seq |-> selected_input_seq(sel),
      past_used |-> past_used ]

\* Gpt2Tester.update, beam mode, lines 226-233 and 258-265
beam_update(r, out) ==
    [ input_ids |-> out.input_ids,
      beam_select_idx |-> out.selected_index_flat,
      input_log_probs |-> out.output_log_probs,
      input_unfinished_sents |-> out.output_unfinished_sents,
      past |-> out.present_flat ]

\* a beam test input: nb beams with their prompts, an empty cache of one row
\* (Gpt2Tester.__init__, past_shape) and beam_select_idx zeros
MaxPrompt == 1

BeamInit ==
    /\ \E nb \in { 1, BeamSize } :
       \E L \in 1 .. MaxPrompt :
       \E ids \in [ 1 .. nb -> [ 1 .. L -> Vocab ] ] :
       \E lps \in [ 1 .. nb -> LogProbs ] :
       \E unf \in [ 1 .. nb -> BOOLEAN ] :
           brun = [ input_ids |-> ids,
                    beam_select_idx |-> [ j \in 1 .. nb |-> 0 ],
                    input_log_probs |-> lps,
                    input_unfinished_sents |-> unf,
                    past |-> << << >> >> ]
    /\ bout = None
    /\ bsteps = 0
    /\ bpc = "forward"
    /\ IdleOutsideBeam

\* per-beam log-probabilities over the vocabulary (line 94), as the backend gives them
BeamLogProbRows(r) == [ DOMAIN r.input_ids -> [ Vocab -> LogProbs ] ]

\* line 95: the sorted top beam_size candidates of every beam
BeamCandidates(rows) ==
    { ids \in [ DOMAIN rows -> [ 1 .. BeamSize -> Vocab ] ] :
        \A i \in DOMAIN rows : ids[i] \in TopKs(rows[i], BeamSize) }

CandidateLogProbs(rows, ids) ==
    [ i \in DOMAIN rows |-> [ k \in 1 .. BeamSize |-> rows[i][ids[i][k]] ] ]

BeamForwardReturns(past_used) ==
    \E rows \in BeamLogProbRows(brun) :
    \E ids \in BeamCandidates(rows) :
    \E sel \in TopKs(output_log_probs_flat(
                         brun.input_log_probs,
                         mask_log_probs(CandidateLogProbs(rows, ids),
                                        brun.input_unfinished_sents)),
                     BeamSize) :
        bout' = forward_output(brun, past_used, CandidateLogProbs(rows, ids), ids, sel)

\* one call of forward (pytorch_inference / onnxruntime_inference)
BeamForward ==
    /\ bpc = "forward"
    /\ bsteps < MaxBeamSteps
    /\ bsteps' = bsteps + 1
    /\ IF index_select_ok(brun.past, brun.beam_select_idx)
       THEN /\ BeamForwardReturns(index_select(brun.past, brun.beam_select_idx))
            /\ bpc' = "update"
       ELSE /\ bout' = bout
            /\ bpc' = "raised"
    /\ UNCHANGED << brun, OutsideBeam >>

\* runner.update(output, step, device)
BeamUpdate ==
    /\ bpc = "update"
    /\ brun' = beam_update(brun, bout)
    /\ bpc' = "forward"
    /\ UNCHANGED << bout, bsteps, OutsideBeam >>

BeamNext == BeamForward \/ BeamUpdate

SpecBeam == BeamInit /\ [][BeamNext]_vars

\* ------------------------------------------ the inputs a runner feeds
\* Token and position ids are those of one row of the batch; the attention
\* mask is kept by its shape.  Gpt2Tester.__init__ with an unpadded prompt: the
\* position ids are 0 .. L-1, the mask is (batch_size, L), the cache is empty.
RunInit ==
    /\ \E L \in 1 .. MaxPrompt :
       \E prompt \in [ 1 .. L -> Vocab ] :
       \E beam, pos, mask \in BOOLEAN :
       \E batch_size \in 1 .. MaxBatch :
           rrun = [ has_beam_search |-> beam,
                    has_position_ids |-> pos,
                    has_attention_mask |-> mask,
                    batch_size |-> batch_size,
                    beam_size |-> IF beam THEN BeamSize ELSE 1,
                    input_length |-> L,
                    input_ids |-> prompt,
                    \* sequences in input_ids: one per batch row at first
                    input_rows |-> batch_size,
                    position_ids |-> IF pos THEN [ i \in 1 .. L |-> i - 1 ] ELSE None,
                    attention_mask |-> IF mask THEN [ rows |-> batch_size, cols |-> L ] ELSE None,
                    past_len |-> 0,
                    step |-> 0,
                    output |-> None,
                    raised |-> FALSE ]
    /\ rfed = << >>
    /\ rpc = "infer"
    /\ IdleOutsideRun

\* what the backend returns for the inputs fed: output[0] is the logits whose
\* top-1 token is tok (greedy) or the history with tok appended (beam search
\* step, gpt2_helper.py line 121); the cache grows by the tokens fed
inference_output(r, tok) ==
    [ first |-> IF r.has_beam_search THEN Append(r.input_ids, tok) ELSE << tok >>,
      \* output[0].size(0): logits (batch, vocab) or input_ids (batch, beam, length)
      size0 |-> r.batch_size,
      present_len |-> r.past_len + Len(r.input_ids) ]

\* lines 251-252: the mask is repeated when its rows differ from output[0]'s
repeat_attention_mask(r, output) ==
    IF r.attention_mask.rows # output.size0 /\ r.has_beam_search
    THEN [ r.attention_mask EXCEPT !.rows = @ * r.batch_size * r.beam_size ]
    ELSE r.attention_mask

\* lines 253-255: torch.cat along dimension 1 needs equal row counts
attention_mask_cat_ok(r, output) ==
    repeat_attention_mask(r, output).rows = r.batch_size * r.beam_size

\* Gpt2Tester.update(output, step, device): lines 226-227, 244, 246-255, and
\* lines 257-265 when line 253 did not raise
runner_update(r, output, loop_step) ==
    [ r EXCEPT !.input_ids = output.first,
               !.input_rows = IF r.has_beam_search THEN r.batch_size * r.beam_size
                              ELSE r.batch_size,
               !.position_ids = IF r.has_position_ids
                                THEN << r.input_length + loop_step - 1 >>
                                ELSE r.position_ids,
               !.attention_mask =
                   IF r.has_attention_mask /\ attention_mask_cat_ok(r, output)
                   THEN [ repeat_attention_mask(r, output) EXCEPT !.cols = @ + 1 ]
                   ELSE IF r.has_attention_mask THEN repeat_attention_mask(r, output)
                   ELSE r.attention_mask,
               !.raised = r.has_attention_mask /\ ~attention_mask_cat_ok(r, output),
               !.past_len = IF r.has_attention_mask /\ ~attention_mask_cat_ok(r, output)
                            THEN r.past_len ELSE output.present_len,
               !.output = None ]

\* pytorch_inference / onnxruntime_inference at step rrun.step of the loop
RunInference ==
    /\ rpc = "infer"
    /\ rrun.step < MaxSteps
    /\ rfed' = Append(rfed, [ past_len |-> rrun.past_len,
                              input_ids |-> rrun.input_ids,
                              input_rows |-> rrun.input_rows,
                              position_ids |-> rrun.position_ids,
                              attention_mask |-> rrun.attention_mask ])
    /\ \E tok \in Vocab : rrun' = [ rrun EXCEPT !.output = inference_output(rrun, tok) ]
    /\ rpc' = "update"
    /\ UNCHANGED OutsideRun

\* runner.update(output, step, device), then the loop goes to the next step
RunUpdate ==
    /\ rpc = "update"
    /\ rrun' = [ runner_update(rrun, rrun.output, rrun.step) EXCEPT !.step = rrun.step + 1 ]
    /\ rpc' = IF rrun'.raised THEN "raised" ELSE "infer"
    /\ UNCHANGED << rfed, OutsideRun >>

RunNext == RunInference \/ RunUpdate

SpecRun == RunInit /\ [][RunNext]_vars

\* -------------------------------------------------- Gpt2Metric, in full
MetricVocabSize == 3
MetricTopK == 2
MetricInputs == 2
MetricSteps == 2
MaxEvals == 3
MaxPastLen == 8
MaxLatency == 2
MaxLatencyCalls == 3

MetricVocab == 0 .. (MetricVocabSize - 1)

\* the logits of one sample: distinct values, so argsort has one answer
MetricLogitRows ==
    { row \in [ MetricVocab -> MetricVocab ] : \A v, w \in MetricVocab : v # w => row[v] # row[w] }

\* the reference logits drawn: rising and falling with the token id
BaselineLogitRows == { [ v \in MetricVocab |-> v ], [ v \in MetricVocab |-> MetricVocabSize - 1 - v ] }

\* predict_next_token, line 311: torch.argsort(logits, -1, descending=True)[:, :top_k]
\* for one row; argsort is not stable, so ties may come in any order
argsort_top_k(row, top_k) == TopKs(row, top_k)

\* faulty variant: the lists are never sorted
order_top_k_Unsorted(topk, required_order) == topk

\* predict_next_token, lines 312-315: topk.sort() unless the order is required
order_top_k(topk, required_order) ==
    IF required_order THEN topk
    ELSE CHOOSE t \in [ DOMAIN topk -> { topk[i] : i \in DOMAIN topk } ] :
             \A a, b \in DOMAIN topk : a < b => t[a] < t[b]

\* _eval_topk with top_k > 1, lines 95 and 100-105
eval_topk(m, baseline_topk, treatment_topk) ==
    IF \A r \in DOMAIN baseline_topk : baseline_topk[r] = treatment_topk[r]
    THEN m
    ELSE [ m EXCEPT !.batch_topk_error =
               [ r \in DOMAIN @ |->
                   @[r] \/ (\E i \in DOMAIN baseline_topk[r] :
                               baseline_topk[r][i] # treatment_topk[r][i]) ] ]

\* line 73: (baseline_logits - treatment_logits).abs().max()
logits_diff(baseline_logits, treatment_logits) ==
    CHOOSE d \in 0 .. MetricVocabSize :
        /\ \E r \in DOMAIN baseline_logits : \E v \in MetricVocab :
               d = IF baseline_logits[r][v] >= treatment_logits[r][v]
                   THEN baseline_logits[r][v] - treatment_logits[r][v]
                   ELSE treatment_logits[r][v] - baseline_logits[r][v]
        /\ \A r \in DOMAIN baseline_logits : \A v \in MetricVocab :
               /\ baseline_logits[r][v] - treatment_logits[r][v] <= d
               /\ treatment_logits[r][v] - baseline_logits[r][v] <= d

\* faulty variant: the running maxima are overwritten
diff_logits_Overwrite(m, diff, is_empty_past) ==
    IF is_empty_past
    THEN [ m EXCEPT !.max_logits_diff_no_past = diff ]
    ELSE [ m EXCEPT !.max_logits_diff = diff ]

\* diff_logits, lines 74-77, given the diff of line 73
diff_logits(m, diff, is_empty_past) ==
    IF is_empty_past
    THEN [ m EXCEPT !.max_logits_diff_no_past = IF @ >= diff THEN @ ELSE diff ]
    ELSE [ m EXCEPT !.max_logits_diff = IF @ >= diff THEN @ ELSE diff ]

\* faulty variant: total_samples is set, not added to
metric_start_batch_Reset(m, batch_size) ==
    [ m EXCEPT !.total_samples = batch_size,
               !.batch_top1_error = [ r \in 1 .. batch_size |-> FALSE ],
               !.batch_topk_error = [ r \in 1 .. batch_size |-> FALSE ] ]

\* start_batch, lines 81-84
metric_start_batch(m, batch_size) ==
    [ m EXCEPT !.total_samples = @ + batch_size,
               !.batch_top1_error = [ r \in 1 .. batch_size |-> FALSE ],
               !.batch_topk_error = [ r \in 1 .. batch_size |-> FALSE ] ]

\* eval_batch, lines 86-90
metric_eval_batch(m, baseline, treatment, past_seq_len) ==
    diff_logits(eval_topk(eval_top1(m, baseline.top_1_tokens, treatment.top_1_tokens),
                          baseline.top_k_tokens, treatment.top_k_tokens),
                logits_diff(baseline.logits, treatment.logits),
                past_seq_len = 0)

\* faulty variant: every sample of the batch is counted as an error
metric_end_batch_CountAll(m) ==
    [ m EXCEPT !.top_1_error = @ + Len(m.batch_top1_error),
               !.top_k_error = @ + Len(m.batch_topk_error) ]

\* end_batch, lines 107-109
metric_end_batch(m) ==
    [ m EXCEPT !.top_1_error =
                   @ + Cardinality({ r \in DOMAIN m.batch_top1_error : m.batch_top1_error[r] }),
               !.top_k_error =
                   @ + Cardinality({ r \in DOMAIN m.batch_topk_error : m.batch_topk_error[r] }) ]

\* int(math.log2(n)) for n >= 1
RECURSIVE Log2Floor(_)
Log2Floor(n) == IF n < 2 THEN 0 ELSE 1 + Log2Floor(n \div 2)

\* faulty variant: the bucket is floor(log2(n)), without the + 1
latency_key_NoOffset(past_seq_len) ==
    IF past_seq_len > 0 THEN Log2Floor(past_seq_len) ELSE 0

\* line 112
latency_key(past_seq_len) ==
    IF past_seq_len > 0 THEN Log2Floor(past_seq_len) + 1 ELSE 0

\* add_latency, lines 113-115, on the dict seq_len_latency
\* Gpt2Metric.print, line 65: the range printed for a bucket key >= 1
printed_range(key) == [ lo |-> 2 ^ key, hi |-> 2 ^ (key + 1) - 1 ]

add_latency(buckets, past_seq_len, latency) ==
    IF latency_key(past_seq_len) \in DOMAIN buckets
    THEN [ buckets EXCEPT ![latency_key(past_seq_len)] = Append(@, latency) ]
    ELSE [ k \in DOMAIN buckets \cup { latency_key(past_seq_len) } |->
             IF k = latency_key(past_seq_len) THEN << latency >> ELSE buckets[k] ]

\* Gpt2Metric.__init__, lines 30-36, and the configuration of the comparison
MetricInit ==
    /\ metric = [ top_1_error |-> 0, top_k_error |-> 0, total_samples |-> 0,
                  max_logits_diff |-> 0, max_logits_diff_no_past |-> 0,
                  batch_top1_error |-> None, batch_topk_error |-> None ]
    /\ \E required_order \in BOOLEAN :
           mrun = [ top_k_required_order |-> required_order, inputs |-> 0, steps |-> 0,
                    evals |-> 0,
                    batch_size |-> 0, past_seq_len |-> 0,
                    \* the batch sizes started, and whether all tokens compared equal
                    sum_batch_size |-> 0, all_equal |-> TRUE,
                    \* per sample of the trial, whether its tokens differed at
                    \* some step; whether one differed at two steps; and the
                    \* number of samples of ended trials that differed at all
                    differed_top1 |-> << >>, differed_topk |-> << >>,
                    differed_twice |-> FALSE,
                    samples_top1 |-> 0, samples_topk |-> 0 ]
    /\ mlast = [ op |-> "init" ]
    /\ mpc = "batch"
    /\ IdleOutsideMetric

\* test_generation, line 423: onnx_metric.start_batch(batch_size); the cache is empty
StartBatch ==
    /\ mpc = "batch"
    /\ mrun.inputs < MetricInputs
    /\ \E batch_size \in 1 .. MaxBatch :
          /\ metric' = metric_start_batch(metric, batch_size)
          /\ mrun' = [ mrun EXCEPT !.inputs = @ + 1, !.steps = 0, !.past_seq_len = 0,
                                   !.batch_size = batch_size,
                                   !.sum_batch_size = @ + batch_size,
                                   !.differed_top1 = [ r \in 1 .. batch_size |-> FALSE ],
                                   !.differed_topk = [ r \in 1 .. batch_size |-> FALSE ],
                                   !.differed_twice = FALSE ]
    /\ mlast' = [ op |-> "start_batch" ]
    /\ mpc' = "step"
    /\ UNCHANGED OutsideMetric

SeqSet(q) == { q[i] : i \in DOMAIN q }

\* a runner's logits and the top-k list line 311 takes from them, per sample
MetricRunners(batch_size, rows) ==
    { rn \in [ logits : [ 1 .. batch_size -> rows ],
               argsort : [ 1 .. batch_size -> [ 1 .. MetricTopK -> MetricVocab ] ] ] :
        \A r \in 1 .. batch_size : rn.argsort[r] \in argsort_top_k(rn.logits[r], MetricTopK) }

\* the tokens a runner holds after update (gpt2_tester.py lines 241-242)
RunnerTokens(rn, required_order) ==
    [ logits |-> rn.logits,
      top_1_tokens |-> predict_next_token(rn.logits),
      top_k_tokens |-> [ r \in DOMAIN rn.argsort |-> order_top_k(rn.argsort[r], required_order) ] ]

\* test_generation: onnx_metric.eval_batch(torch_runner, onnx_runner, past_seq_len)
\* at one step; the cache is longer at the next.  mlast keeps the call as seen
\* for one sample of the batch: whether the two top-k lists of line 311 were
\* the same list, and whether they held the same tokens.
EvalBatch ==
    /\ mpc = "step"
    /\ mrun.steps < MetricSteps
    /\ mrun.evals < MaxEvals
    /\ \E b \in MetricRunners(mrun.batch_size, BaselineLogitRows) :
       \E t \in MetricRunners(mrun.batch_size, MetricLogitRows) :
       \E sample \in 1 .. mrun.batch_size :
          LET baseline == RunnerTokens(b, mrun.top_k_required_order)
              treatment == RunnerTokens(t, mrun.top_k_required_order)
          IN  /\ metric' = metric_eval_batch(metric, baseline, treatment, mrun.past_seq_len)
              /\ mrun' = [ mrun EXCEPT
                     !.steps = @ + 1,
                     !.evals = @ + 1,
                     !.past_seq_len = @ + 1,
                     !.all_equal = /\ @
                                   /\ baseline.top_1_tokens = treatment.top_1_tokens
                                   /\ baseline.top_k_tokens = treatment.top_k_tokens,
                     !.differed_top1 =
                         [ r \in DOMAIN @ |->
                             @[r] \/ baseline.top_1_tokens[r] # treatment.top_1_tokens[r] ],
                     !.differed_topk =
                         [ r \in DOMAIN @ |->
                             @[r] \/ baseline.top_k_tokens[r] # treatment.top_k_tokens[r] ],
                     !.differed_twice =
                         @ \/ \E r \in DOMAIN mrun.differed_top1 :
                                 /\ mrun.differed_top1[r]
                                 /\ baseline.top_1_tokens[r] # treatment.top_1_tokens[r] ]
              /\ mlast' = [ op |-> "eval_batch",
                            sample |-> sample,
                            same_list |-> (b.argsort[sample] = t.argsort[sample]),
                            same_set |-> (SeqSet(b.argsort[sample]) = SeqSet(t.argsort[sample])),
                            topk_error_before |-> metric.batch_topk_error[sample],
                            diff |-> logits_diff(b.logits, t.logits),
                            is_empty_past |-> (mrun.past_seq_len = 0),
                            max_logits_diff_before |-> metric.max_logits_diff,
                            max_logits_diff_no_past_before |-> metric.max_logits_diff_no_past ]
    /\ UNCHANGED << mpc, OutsideMetric >>

\* after the step loop: onnx_metric.end_batch()
EndBatch ==
    /\ mpc = "step"
    /\ metric' = metric_end_batch(metric)
    /\ mrun' = [ mrun EXCEPT
           !.samples_top1 =
               @ + Cardinality({ r \in DOMAIN mrun.differed_top1 : mrun.differed_top1[r] }),
           !.samples_topk =
               @ + Cardinality({ r \in DOMAIN mrun.differed_topk : mrun.differed_topk[r] }) ]
    /\ mlast' = [ op |-> "end_batch" ]
    /\ mpc' = "batch"
    /\ UNCHANGED OutsideMetric

MetricNext == StartBatch \/ EvalBatch \/ EndBatch

SpecMetric == MetricInit /\ [][MetricNext]_vars

\* ------------------------------------------------ Gpt2Metric.add_latency
\* Gpt2Metric.__init__, line 38
LatencyInit ==
    /\ seq_len_latency = << >>
    /\ llast = [ calls |-> 0 ]
    /\ IdleOutsideLatency

\* test_generation: metric.add_latency(past_seq_len, latency)
AddLatency ==
    /\ llast # None
    /\ llast.calls < MaxLatencyCalls
    /\ \E past_seq_len \in 0 .. MaxPastLen :
       \E latency \in 1 .. MaxLatency :
          /\ seq_len_latency' = add_latency(seq_len_latency, past_seq_len, latency)
          /\ llast' = [ calls |-> llast.calls + 1, past_seq_len |-> past_seq_len,
                        latency |-> latency, before |-> seq_len_latency ]
    /\ UNCHANGED OutsideLatency

SpecLatency == LatencyInit /\ [][AddLatency]_vars

\* ------------------------------------ every accumulating call of Gpt2Metric
\* One Gpt2Metric on which either the batch calls or the latency calls are
\* made: the two groups of methods assign disjoint fields.
AccumInit == MetricInit \/ LatencyInit

AccumNext == StartBatch \/ EvalBatch \/ EndBatch \/ AddLatency

SpecAccum == AccumInit /\ [][AccumNext]_vars

\* ------------------------------------- Gpt2Helper.auto_increase_buffer_size
MaxDim == 2
MaxBufCalls == 3

\* the shapes drawn: two dimensions each
BufShapes == [ 1 .. 2 -> 1 .. MaxDim ]

\* numpy.prod(shape)
numpy_prod(shape) == shape[1] * shape[2]

\* the output names of get_output_shapes in insertion order (lines 279-281),
\* and one name more than the buffers were allocated for
BufNames == << "logits", "present_0", "present_1" >>

\* get_output_buffers, lines 301-304: one fresh tensor per name
get_output_buffers(output_shapes) ==
    [ name \in DOMAIN output_shapes |->
        [ id |-> CHOOSE i \in 1 .. Len(BufNames) : BufNames[i] = name,
          nelement |-> numpy_prod(output_shapes[name]) ] ]

\* faulty variant: the buffer is reallocated to the required size whenever it differs
grow_buffer_Resize(buffer, shape, fresh_id) ==
    IF numpy_prod(shape) # buffer.nelement
    THEN [ id |-> fresh_id, nelement |-> numpy_prod(shape) ]
    ELSE buffer

\* lines 289-293 for one key: torch.empty makes a new tensor
grow_buffer(buffer, shape, fresh_id) ==
    IF numpy_prod(shape) > buffer.nelement
    THEN [ id |-> fresh_id, nelement |-> numpy_prod(shape) ]
    ELSE buffer

\* auto_increase_buffer_size, lines 287-293, over the keys in order up to the
\* first key that fails the assert of line 288
RECURSIVE auto_increase_buffer_size(_, _, _, _)
auto_increase_buffer_size(buffers, output_shapes, k, fresh_id) ==
    IF k > Len(BufNames) THEN [ buffers |-> buffers, raised |-> FALSE, fresh_id |-> fresh_id ]
    ELSE IF BufNames[k] \notin DOMAIN output_shapes
         THEN auto_increase_buffer_size(buffers, output_shapes, k + 1, fresh_id)
    ELSE IF BufNames[k] \notin DOMAIN buffers
         THEN [ buffers |-> buffers, raised |-> TRUE, fresh_id |-> fresh_id ]
    ELSE auto_increase_buffer_size(
             [ buffers EXCEPT ![BufNames[k]] = grow_buffer(@, output_shapes[BufNames[k]], fresh_id) ],
             output_shapes, k + 1,
             IF grow_buffer(buffers[BufNames[k]], output_shapes[BufNames[k]], fresh_id)
                    = buffers[BufNames[k]]
             THEN fresh_id ELSE fresh_id + 1)

\* the initial buffers (gpt2_tester.py line 390, gpt2_helper.py lines 694-696)
BufInit ==
    /\ \E init_output_shapes \in [ { BufNames[1], BufNames[2] } -> BufShapes ] :
           output_buffers = get_output_buffers(init_output_shapes)
    /\ buf_run = [ calls |-> 0, fresh_id |-> Len(BufNames) + 1, op |-> "init" ]
    /\ IdleOutsideBuf

\* one call Gpt2Helper.auto_increase_buffer_size(output_buffers, output_shapes)
AutoIncreaseBufferSize ==
    /\ buf_run # None
    /\ buf_run.op # "raised"
    /\ buf_run.calls < MaxBufCalls
    /\ \E names \in (SUBSET { BufNames[i] : i \in 1 .. Len(BufNames) }) \ { {} } :
       \E output_shapes \in [ names -> BufShapes ] :
          LET res == auto_increase_buffer_size(output_buffers, output_shapes, 1, buf_run.fresh_id)
          IN  /\ output_buffers' = res.buffers
              /\ buf_run' = [ calls |-> buf_run.calls + 1,
                              fresh_id |-> res.fresh_id,
                              op |-> IF res.raised THEN "raised" ELSE "returned",
                              output_shapes |-> output_shapes,
                              before |-> output_buffers ]
    /\ UNCHANGED OutsideBuf

SpecBuf == BufInit /\ [][AutoIncreaseBufferSize]_vars

\* ------------------------------------------------------------------
\* convert_to_onnx.main, lines 204-323: reading the input test file.
\* A line of a .json file is kept by the token row of its "input_ids"; the
\* locals inputs and beam_size are unbound until an assignment runs.

MaxLines == 3
MaxLineTok == 2
TestFiles == UNION { [ 1 .. n -> 1 .. MaxLineTok ] : n \in 0 .. MaxLines }

\* lines 211-237 without padding: the inputs of one line
json_line_inputs(line) == [ input_ids |-> << line >> ]

\* lines 239-303: one inputs dictionary holding every code segment of the text
text_inputs(file) == [ input_ids |-> file ]

MainInit ==
    /\ \E file \in TestFiles :
       \E is_json, beam \in BOOLEAN :
           main_run = [ file |-> file,
                        is_json |-> is_json,
                        use_beam_search_step |-> beam,
                        next_line |-> 1,
                        inputs |-> << >>,          \* << >> while unbound
                        beam_size |-> Unbound,
                        test_inputs |-> << >>,     \* line 205
                        passed |-> << >>,
                        pc |-> "read" ]
    /\ IdleOutsideMain

\* one iteration of the loop of line 211
ReadJsonLine ==
    /\ main_run # None
    /\ main_run.pc = "read"
    /\ main_run.is_json
    /\ main_run.next_line <= Len(main_run.file)
    /\ main_run' = [ main_run EXCEPT
                       !.inputs = << json_line_inputs(main_run.file[main_run.next_line]) >>,
                       !.next_line = @ + 1 ]
    /\ UNCHANGED OutsideMain

\* the else branch of line 238
ReadText ==
    /\ main_run # None
    /\ main_run.pc = "read"
    /\ ~main_run.is_json
    /\ main_run' = [ main_run EXCEPT
                       !.beam_size = IF main_run.use_beam_search_step THEN 4 ELSE 1,
                       !.inputs = << text_inputs(main_run.file) >>,
                       !.pc = "append" ]
    /\ UNCHANGED OutsideMain

\* the loop of line 211 is exhausted
EndJsonLoop ==
    /\ main_run # None
    /\ main_run.pc = "read"
    /\ main_run.is_json
    /\ main_run.next_line > Len(main_run.file)
    /\ main_run' = [ main_run EXCEPT !.pc = "append" ]
    /\ UNCHANGED OutsideMain

\* line 305, after the if/else of line 210: test_inputs.append(inputs)
AppendInputs ==
    /\ main_run # None
    /\ main_run.pc = "append"
    /\ main_run' = IF main_run.inputs = << >>
                   THEN [ main_run EXCEPT !.pc = "raised" ]
                   ELSE [ main_run EXCEPT !.test_inputs = Append(@, main_run.inputs[1]),
                                          !.pc = "call" ]
    /\ UNCHANGED OutsideMain

\* lines 307-323: the arguments are evaluated, then test_generation is called
CallTestGeneration ==
    /\ main_run # None
    /\ main_run.pc = "call"
    /\ main_run' = IF main_run.beam_size = Unbound
                   THEN [ main_run EXCEPT !.pc = "raised" ]
                   ELSE [ main_run EXCEPT !.passed = main_run.test_inputs,
                                          !.pc = "called" ]
    /\ UNCHANGED OutsideMain

MainNext == ReadJsonLine \/ ReadText \/ EndJsonLoop \/ AppendInputs \/ CallTestGeneration

SpecMain == MainInit /\ [][MainNext]_vars

\* ------------------------------------------------------------------
\* Gpt2Helper.test_parity, lines 665-726.  The buffers are kept by whether
\* they were allocated; the comparison of the two backends' outputs is free.

MaxTestCases == 2
MaxParityPast == 2
max_seq_len == 2

\* lines 692-696
parity_output_buffers(use_io_binding) == IF use_io_binding THEN "allocated" ELSE "None"

\* lines 712-718: the inference function a test case calls
parity_inference_path(use_io_binding) == IF use_io_binding THEN "plain" ELSE "binded_io"

\* onnxruntime_inference_with_binded_io -> prepare_io_binding, line 569:
\* output_buffers is subscripted
binded_io_raises(buffers) == buffers = "None"

ParityInit ==
    /\ \E use_io_binding \in BOOLEAN :
       \E total_test_cases \in 0 .. MaxTestCases :
           parity_run = [ use_io_binding |-> use_io_binding,
                          total_test_cases |-> total_test_cases,
                          output_buffers |-> parity_output_buffers(use_io_binding),
                          passed_test_cases |-> 0,
                          cases |-> 0,
                          path |-> "",
                          shape |-> << >>,
                          pc |-> "loop" ]
    /\ IdleOutsideParity

\* one iteration of the loop of line 699
ParityTestCase ==
    /\ parity_run # None
    /\ parity_run.pc = "loop"
    /\ parity_run.cases < parity_run.total_test_cases
    /\ \E sequence_length \in 1 .. max_seq_len :
       \E past_sequence_length \in 0 .. MaxParityPast :
       \E batch_size \in 1 .. MaxBatch :
       \E is_all_close \in BOOLEAN :
          LET path == parity_inference_path(parity_run.use_io_binding)
              raised == path = "binded_io" /\ binded_io_raises(parity_run.output_buffers)
          IN  parity_run' = [ parity_run EXCEPT
                  !.cases = @ + 1,
                  !.path = path,
                  !.shape = << batch_size, past_sequence_length, sequence_length >>,
                  !.passed_test_cases = IF ~raised /\ is_all_close THEN @ + 1 ELSE @,
                  !.pc = IF raised THEN "raised" ELSE "loop" ]
    /\ UNCHANGED OutsideParity

\* lines 723-726
ParityReturn ==
    /\ parity_run # None
    /\ parity_run.pc = "loop"
    /\ parity_run.cases = parity_run.total_test_cases
    /\ parity_run' = [ parity_run EXCEPT !.pc = "returned" ]
    /\ UNCHANGED OutsideParity

ParityNext == ParityTestCase \/ ParityReturn

SpecParity == ParityInit /\ [][ParityNext]_vars

\* --------------------------------------------- claims on test_generation
\* C1: for every max_steps = N >= 0 the decode loop of an input takes at most N
\* step advances (at most N updates of each runner) and the input then reaches
\* end_batch: leaving the loop never ends in an exception before end_batch.
C1_TerminationBound ==
    /\ steps_run <= max_steps
    /\ (torch_runner # None =>
            /\ torch_runner.n_update <= max_steps
            /\ onnx_runner.n_update <= max_steps
            /\ onnx_io_runner.n_update <= max_steps)
    /\ gpc # "raised"

\* C2: in greedy mode the loop is left before max_steps iterations only when every
\* sequence of the batch has had the end-of-sequence token as top-1 at some step.
C2_GreedyStopsOnlyWhenAllEos ==
    (gpc = "after_loop" /\ ~ use_beam_search_step /\ steps_run < max_steps)
        => \A r \in DOMAIN eos_seen : eos_seen[r]

\* C3: in beam mode the loop is left before max_steps iterations only after a step
\* that leaves every beam's unfinished flag false.
C3_BeamStopsOnlyWhenAllFinished ==
    (gpc = "after_loop" /\ use_beam_search_step /\ steps_run < max_steps)
        => \A r \in DOMAIN onnx_io_runner.input_unfinished_sents :
              \A j \in DOMAIN onnx_io_runner.input_unfinished_sents[r] :
                  ~ onnx_io_runner.input_unfinished_sents[r][j]

\* ------------------------------------------------ claims on the Conv rewrites
\* positions of the nodes of a list that write tensor t
NodesWriting(nodes, t) ==
    { n \in DOMAIN nodes : \E q \in DOMAIN nodes[n].output : nodes[n].output[q] = t }

Tensors == UNION { { GraphNodes[k].input[q] : q \in DOMAIN GraphNodes[k].input }
                   : k \in DOMAIN GraphNodes }

\* the scale-product Mul nodes of a list: a Mul of two scale tensors
ScaleMuls(nodes) ==
    { n \in DOMAIN nodes :
        /\ nodes[n].op_type = "Mul"
        /\ \A q \in DOMAIN nodes[n].input :
              \E t \in Tensors : nodes[n].input[q] = ScaleName(t) }

\* C4: after ConvInteger.quantize returned for a Conv, exactly one node writes the
\* Conv's output name: the output-scale Mul (of the cast output) without a bias, the
\* bias Add (of the scaled output and the reshaped bias) with one; of the nodes the
\* call emitted, exactly one writes that name.
C4_OutputTakenOver ==
    /\ mode = "IntegerOps" =>
        \A k \in rewritten :
            LET c == GraphNodes[k]
                W == NodesWriting(new_nodes, c.output)
            IN  /\ Cardinality(W) = 1
                /\ \A n \in W :
                      IF has_bias(c)
                      THEN /\ new_nodes[n].op_type = "Add"
                           /\ new_nodes[n].input = << c.output \o "quant_scaled_output",
                                                      c.output \o "_bias_reshape_output" >>
                      ELSE /\ new_nodes[n].op_type = "Mul"
                           /\ new_nodes[n].input[1] = c.output \o "_output_quantized_cast_output"
    /\ (last # None /\ last.op = "ConvInteger" /\ ~ last.raised) =>
        Cardinality(NodesWriting(last.nodes, last.node.output)) = 1

C4_Witness ==
    /\ mode = "IntegerOps"
    /\ { 1, 2 } \subseteq rewritten

\* C5, as stated: ConvInteger.quantize on a Conv whose weight is not an initializer
\* raises the expected-constant error naming the weight, with or without a bias,
\* and emits nothing.
C5_NonConstWeightAlwaysRaises ==
    (last # None /\ last.op = "ConvInteger" /\ last.node.input[2] \notin last.pre_initializers)
        => /\ last.raised
           /\ last.tensor = last.node.input[2]
           /\ new_nodes = last.pre_new_nodes

\* C5, as the code has it: with a bias the call raises the expected-constant error naming the
\* weight and appends nothing; without a bias it returns and the ConvInteger node
\* consuming the dynamically quantized weight is appended.
C5_NonConstWeightRaisesWithBias ==
    (last # None /\ last.op = "ConvInteger" /\ last.node.input[2] \notin last.pre_initializers)
        => IF has_bias(last.node)
           THEN /\ last.raised
                /\ last.error = "Expected to be an initializer"
                /\ last.tensor = last.node.input[2]
                /\ new_nodes = last.pre_new_nodes
           ELSE /\ ~ last.raised
                /\ \E n \in DOMAIN new_nodes :
                      /\ n > Len(last.pre_new_nodes)
                      /\ new_nodes[n].op_type = "ConvInteger"
                      /\ new_nodes[n].input[2] = QName(last.node.input[2])

C5_Witness ==
    /\ last # None
    /\ last.op = "ConvInteger"
    /\ has_bias(last.node)
    /\ last.node.input[2] \notin last.pre_initializers
    /\ last.raised

\* C6: a rewrite is atomic: when quantize() raises, new_nodes, the
\* initializers and the quantized-value map are as before the call; when it
\* returns, its nodes have been appended.
C6_RewriteAtomic ==
    last # None =>
        IF last.raised
        THEN /\ new_nodes = last.pre_new_nodes
             /\ initializers = last.pre_initializers
             /\ quantized_value_map = last.pre_quantized_value_map
        ELSE new_nodes = last.pre_new_nodes \o last.nodes

\* C7, as stated: new_nodes holds at most one scale-product Mul per pair of scale
\* tensors, for named and unnamed Conv nodes.
C7_OneScaleMulPerScalePair ==
    \A n1, n2 \in ScaleMuls(new_nodes) :
        n1 # n2 => new_nodes[n1].input # new_nodes[n2].input

\* C7, as the code has it: new_nodes holds at most one scale-product Mul per derived name
\* (node name + "_quant_scales_mul" for a named Conv, the two scale names joined
\* for an unnamed one); so unnamed Conv nodes with the same two scale tensors share
\* one Mul, the later rewrite emitting none, while each named Conv gets its own.
C7_OneScaleMulPerDerivedName ==
    /\ \A n1, n2 \in ScaleMuls(new_nodes) :
          n1 # n2 => new_nodes[n1].name # new_nodes[n2].name
    /\ \A n1, n2 \in ScaleMuls(new_nodes) :
          (n1 # n2 /\ new_nodes[n1].input = new_nodes[n2].input)
              => \E n \in { n1, n2 } :
                    new_nodes[n].name #
                        new_nodes[n].input[1] \o "_" \o new_nodes[n].input[2] \o "_mul"
    /\ (/\ last # None /\ last.op = "ConvInteger" /\ ~ last.raised /\ last.node.name = ""
        /\ \E k \in rewritten :
              /\ k # last.k
              /\ GraphNodes[k].name = ""
              /\ GraphNodes[k].input[1] = last.node.input[1]
              /\ GraphNodes[k].input[2] = last.node.input[2])
          => ScaleMuls(last.nodes) = {}

C7_Witness ==
    /\ mode = "IntegerOps"
    /\ { 3, 4 } \subseteq rewritten
    /\ Cardinality(ScaleMuls(new_nodes)) = 1

\* C8: every QLinearConv node emitted has the inputs quantized data, data scale,
\* data zero-point, quantized weight, weight scale, weight zero-point, output scale,
\* output zero-point, and then the quantized bias exactly when the Conv had 3 inputs.
C8_QLinearConvInputOrder ==
    \A n \in DOMAIN new_nodes :
        new_nodes[n].op_type = "QLinearConv" =>
            \E k \in rewritten :
                LET c == GraphNodes[k] IN
                /\ new_nodes[n].output = << c.output \o "_quantized" >>
                /\ new_nodes[n].input =
                       << QName(c.input[1]), ScaleName(c.input[1]), ZpName(c.input[1]),
                          QName(c.input[2]), ScaleName(c.input[2]), ZpName(c.input[2]),
                          ScaleName(c.output), ZpName(c.output) >>
                       \o (IF Len(c.input) = 3 THEN << QName(c.input[3]) >> ELSE << >>)
                /\ Len(new_nodes[n].input) = IF Len(c.input) = 3 THEN 9 ELSE 8

C8_Witness ==
    /\ mode = "QLinearOps"
    /\ per_channel
    /\ { 1, 2 } \subseteq rewritten

\* C9: QLinearConv.quantize on a Conv whose output has no recorded quantization
\* parameters raises the error naming that output, emits no QLinearConv node for
\* it, records no quantized-value entry for it, and the pass does not go on.
C9_MissingOutputParamsRaises ==
    (last # None /\ last.op = "QLinearConv" /\ last.node.output \notin quantization_params)
        => /\ last.raised
           /\ last.error = "Quantization parameters for output not specified"
           /\ last.tensor = last.node.output
           /\ NodesWriting(new_nodes, last.node.output \o "_quantized") = {}
           /\ last.node.output \notin DOMAIN quantized_value_map
           /\ last.k \notin rewritten
           /\ cpc = "aborted"

C9_Witness ==
    /\ last # None
    /\ last.op = "QLinearConv"
    /\ last.raised
    /\ rewritten # {}

\* C10: every Conv that QLinearConv.quantize rewrote has a quantized-value entry
\* keyed by its output name, whose quantized name is the output of exactly one
\* emitted QLinearConv node and whose scale and zero-point names are the output
\* scale and zero-point inputs of that node.
C10_QuantizedValueRecorded ==
    mode = "QLinearOps" =>
        \A k \in rewritten :
            LET out == GraphNodes[k].output IN
            /\ out \in DOMAIN quantized_value_map
            /\ quantized_value_map[out].original_name = out
            /\ quantized_value_map[out].value_type = "Input"
            /\ LET W == { n \in DOMAIN new_nodes :
                            /\ new_nodes[n].op_type = "QLinearConv"
                            /\ new_nodes[n].output = << quantized_value_map[out].q_name >> }
               IN  /\ Cardinality(W) = 1
                   /\ \A n \in W :
                         /\ new_nodes[n].input[7] = quantized_value_map[out].scale_name
                         /\ new_nodes[n].input[8] = quantized_value_map[out].zp_name

C10_Witness ==
    /\ mode = "QLinearOps"
    /\ Cardinality(rewritten) >= 2
    /\ last # None
    /\ ~ last.raised

C12_IntegerPathExact ==
    (float_output # None /\ quant_output # None) => quant_output = float_output

C12_Witness ==
    /\ float_output # None
    /\ quant_output = float_output
    /\ has_bias(conv_case.node)
    /\ conv_case.x_zp = 1
    /\ conv_case.w_zp = 1
    /\ conv_case.x_scale # FP
    /\ float_output[1] # float_output[2]
    /\ float_output[1] < 0

\* ------------------------------------------ claims on the beam search step
\* C13: in one beam search step, every beam whose incoming unfinished flag is
\* false has log-probability 0 on its first candidate and -inf on all others,
\* the end-of-sequence token on every candidate, and so contributes one
\* selectable candidate, whose score is the beam's incoming log-probability.
C13_FinishedBeamMasked ==
    bout # None =>
        \A i \in DOMAIN bout.in_unfinished_sents :
            ~bout.in_unfinished_sents[i] =>
                /\ bout.next_token_log_probs[i][1] = 0
                /\ \A k \in 2 .. BeamSize : bout.next_token_log_probs[i][k] = NegInf
                /\ \A k \in 1 .. BeamSize : bout.next_token_ids[i][k] = eos_token_id
                /\ output_log_probs_flat(bout.in_log_probs, bout.next_token_log_probs)
                       [(i - 1) * BeamSize] = bout.in_log_probs[i]
                /\ \A k \in 2 .. BeamSize :
                       output_log_probs_flat(bout.in_log_probs, bout.next_token_log_probs)
                           [(i - 1) * BeamSize + k - 1] = NegInf

\* a finished beam with a non-zero incoming log-probability whose one candidate
\* was selected
C13_Witness ==
    /\ bout # None
    /\ \E i \in DOMAIN bout.in_unfinished_sents :
          /\ ~bout.in_unfinished_sents[i]
          /\ bout.in_log_probs[i] = 0 - 1
          /\ \E j \in DOMAIN bout.selected_index_flat :
                /\ bout.selected_index_flat[j] = (i - 1) * BeamSize
                /\ bout.output_log_probs[j] = 0 - 1
                /\ ~bout.output_unfinished_sents[j]

\* C14: the token history, the unfinished flag and the cache rows of every
\* output beam slot come from the same source beam, and no step raises.
C14_SameSourceBeam ==
    /\ bpc # "raised"
    /\ (bpc = "forward" /\ bout # None) =>
          \A j \in DOMAIN brun.beam_select_idx :
              brun.beam_select_idx[j] = bout.selected_input_seq[j]

\* --------------------------------------------- claims on the runner's inputs
\* C15: after the first step, the cache length fed to the backend grows by
\* exactly 1 from each step to the next, in greedy and in beam mode.
C15_CacheGrowsByOne ==
    \A k \in 2 .. (Len(rfed) - 1) : rfed[k + 1].past_len = rfed[k].past_len + 1

\* C16: in greedy generation with an unpadded prompt, the position id fed at
\* every step after the first is the previous position plus one, the step
\* after the first update included.
C16_PositionAdvancesByOne ==
    (rrun # None /\ ~rrun.has_beam_search /\ rrun.has_position_ids) =>
        \A k \in 1 .. (Len(rfed) - 1) :
            rfed[k + 1].position_ids[Len(rfed[k + 1].position_ids)]
                = rfed[k].position_ids[Len(rfed[k].position_ids)] + 1

\* ------------------------------------------------------ claims on Gpt2Metric
\* C17: if at every step of every input the two runners' top-1 tokens and
\* top-k tokens were equal, then after the end_batch calls top_1_error and
\* top_k_error are 0; total_samples is the sum of the batch sizes started.
C17_EqualTrajectoriesNoError ==
    mpc = "batch" =>
        /\ metric.total_samples = mrun.sum_batch_size
        /\ mrun.all_equal => (metric.top_1_error = 0 /\ metric.top_k_error = 0)

\* two inputs of different batch sizes, each with an evaluated step, all equal
C17_Witness ==
    /\ mpc = "batch"
    /\ mrun.inputs = 2
    /\ mrun.evals = 2
    /\ mrun.steps = 1
    /\ mrun.all_equal
    /\ metric.total_samples = 3
    /\ metric.top_1_error = 0
    /\ metric.top_k_error = 0

\* C18: in one eval_batch call a sample's top-k error flag is raised, when the
\* order is not required, exactly if the two top-k lists hold different tokens
\* (permuted lists raise nothing), and when the order is required, exactly if
\* the lists differ (permuted lists raise it).
C18_TopKComparison ==
    mlast.op = "eval_batch" =>
        metric.batch_topk_error[mlast.sample] =
            (\/ mlast.topk_error_before
             \/ IF mrun.top_k_required_order THEN ~mlast.same_list ELSE ~mlast.same_set)

\* order not required: the observed sample had permuted lists and no error,
\* while the other sample of the batch has an error
C18_Witness ==
    /\ mlast.op = "eval_batch"
    /\ ~mrun.top_k_required_order
    /\ mrun.batch_size = 2
    /\ mlast.same_set
    /\ ~mlast.same_list
    /\ ~metric.batch_topk_error[mlast.sample]
    /\ metric.batch_topk_error[3 - mlast.sample]

\* C19: an eval_batch call at an empty cache sets max_logits_diff_no_past to
\* the larger of its old value and the call's diff and leaves max_logits_diff;
\* a call at a non-empty cache does the same to max_logits_diff and leaves
\* max_logits_diff_no_past.
C19_SeparateRunningMaxima ==
    mlast.op = "eval_batch" =>
        LET larger(a, b) == IF a >= b THEN a ELSE b
        IN  IF mlast.is_empty_past
            THEN /\ metric.max_logits_diff_no_past
                      = larger(mlast.max_logits_diff_no_past_before, mlast.diff)
                 /\ metric.max_logits_diff = mlast.max_logits_diff_before
            ELSE /\ metric.max_logits_diff
                      = larger(mlast.max_logits_diff_before, mlast.diff)
                 /\ metric.max_logits_diff_no_past = mlast.max_logits_diff_no_past_before

\* the second input's call at an empty cache, with a smaller diff than the
\* maximum so far, while the other maximum holds a different value
C19_Witness ==
    /\ mlast.op = "eval_batch"
    /\ mrun.inputs = 2
    /\ mlast.is_empty_past
    /\ mlast.diff = 1
    /\ mlast.max_logits_diff_no_past_before = 2
    /\ metric.max_logits_diff_no_past = 2
    /\ metric.max_logits_diff = 1

\* the bucket of cache length n: 0 for n = 0, else the k >= 1 with 2^(k-1) <= n < 2^k
C20_Bucket(n) ==
    IF n = 0 THEN 0 ELSE CHOOSE k \in 1 .. n : 2 ^ (k - 1) <= n /\ n < 2 ^ k

\* C20: add_latency for cache length n appends the latency to bucket 0 when
\* n = 0 and to bucket floor(log2(n)) + 1 when n >= 1, that is to the bucket k
\* with 2^(k-1) <= n < 2^k, and changes no other bucket.
C20_LatencyBucket ==
    llast # None /\ llast.calls > 0 =>
        LET k == C20_Bucket(llast.past_seq_len)
            old(j) == IF j \in DOMAIN llast.before THEN llast.before[j] ELSE << >>
        IN  /\ DOMAIN seq_len_latency = DOMAIN llast.before \cup { k }
            /\ seq_len_latency[k] = Append(old(k), llast.latency)
            /\ \A j \in DOMAIN llast.before : j # k => seq_len_latency[j] = llast.before[j]

\* cache length 7 lands in bucket 3, which already held the latency of length 4
C20_Witness ==
    /\ llast # None
    /\ llast.calls = 3
    /\ llast.past_seq_len = 7
    /\ llast.latency = 2
    /\ DOMAIN seq_len_latency = { 0, 3 }
    /\ seq_len_latency[3] = << 1, 2 >>
    /\ Len(seq_len_latency[0]) = 1

C22_BuffersGrowOnly ==
    (buf_run # None /\ buf_run.op \in { "returned", "raised" }) =>
        /\ buf_run.op = "returned" =>
              \A name \in DOMAIN buf_run.output_shapes :
                  /\ name \in DOMAIN output_buffers
                  /\ output_buffers[name].nelement >= numpy_prod(buf_run.output_shapes[name])
        /\ DOMAIN output_buffers = DOMAIN buf_run.before
        /\ \A name \in DOMAIN buf_run.before :
              /\ output_buffers[name].nelement >= buf_run.before[name].nelement
              /\ (\/ name \notin DOMAIN buf_run.output_shapes
                  \/ buf_run.before[name].nelement >= numpy_prod(buf_run.output_shapes[name]))
                 => output_buffers[name] = buf_run.before[name]

\* a second call that replaced one buffer by a larger one and left the other,
\* which was named with a smaller shape, as the same tensor
C22_Witness ==
    /\ buf_run # None
    /\ buf_run.op = "returned"
    /\ buf_run.calls = 2
    /\ DOMAIN buf_run.output_shapes = { "logits", "present_0" }
    /\ output_buffers["logits"].id # buf_run.before["logits"].id
    /\ output_buffers["logits"].nelement > buf_run.before["logits"].nelement
    /\ numpy_prod(buf_run.output_shapes["present_0"]) < output_buffers["present_0"].nelement
    /\ output_buffers["present_0"] = buf_run.before["present_0"]

\* ------------------------------------ further claims on the beam search step
\* C23: every entry of the selection index a beam search step returns is a
\* row of the cache that step returns, which the next step re-indexes with it.
C23_SelectionIndexInRange ==
    bout # None =>
        \A j \in DOMAIN bout.selected_index_flat :
            /\ bout.selected_index_flat[j] >= 0
            /\ bout.selected_index_flat[j] < Len(bout.present_flat)

\* ---------------------------------------- further claims on the runner's inputs
\* C24: at every step the attention mask fed has as many columns as the cache
\* length plus the input_ids length of that step and as many rows as the
\* input has sequences, in greedy and in beam mode, and update never fails on it.
C24_AttentionMaskShape ==
    /\ rpc # "raised"
    /\ \A k \in DOMAIN rfed :
          rfed[k].attention_mask # None =>
              /\ rfed[k].attention_mask.cols = rfed[k].past_len + Len(rfed[k].input_ids)
              /\ rfed[k].attention_mask.rows = rfed[k].input_rows

\* ---------------------------------------- claims on convert_to_onnx.main
\* C25: for a .json input test file of n lines, main builds n test inputs,
\* one per line in file order, and passes all n to test_generation.
C25_OneTestInputPerLine ==
    (main_run # None /\ main_run.is_json /\ main_run.pc \in { "call", "called", "raised" }) =>
        /\ main_run.pc # "raised"
        /\ main_run.test_inputs =
               [ i \in 1 .. Len(main_run.file) |-> json_line_inputs(main_run.file[i]) ]
        /\ main_run.pc = "called" => main_run.passed = main_run.test_inputs

\* ---------------------------------------- further claims on the beam step
\* C26: a finished beam never becomes unfinished again: an output slot is
\* unfinished after a step only if its source beam was unfinished before the
\* step and the token chosen for it is not the end-of-sequence id; when every
\* input beam is finished every output slot is finished; and the flags the
\* next step starts from are the flags this step returned.
C26_FinishedStaysFinished ==
    bout # None =>
        /\ \A j \in DOMAIN bout.output_unfinished_sents :
              bout.output_unfinished_sents[j] =>
                  /\ bout.in_unfinished_sents[bout.selected_input_seq[j] + 1]
                  /\ bout.input_ids[j][Len(bout.input_ids[j])] # eos_token_id
        /\ (\A i \in DOMAIN bout.in_unfinished_sents : ~bout.in_unfinished_sents[i]) =>
              \A j \in DOMAIN bout.output_unfinished_sents : ~bout.output_unfinished_sents[j]
        /\ bpc = "forward" => brun.input_unfinished_sents = bout.output_unfinished_sents

\* the second step of a run: a slot that finished by choosing the
\* end-of-sequence id in an unfinished beam, and a slot continuing a beam that
\* was already finished
C26_Witness ==
    /\ bout # None
    /\ bsteps = 2
    /\ bpc = "update"
    /\ \E j \in DOMAIN bout.output_unfinished_sents :
          /\ bout.in_unfinished_sents[bout.selected_input_seq[j] + 1]
          /\ bout.input_ids[j][Len(bout.input_ids[j])] = eos_token_id
          /\ ~bout.output_unfinished_sents[j]
    /\ \E j \in DOMAIN bout.output_unfinished_sents :
          /\ ~bout.in_unfinished_sents[bout.selected_input_seq[j] + 1]
          /\ ~bout.output_unfinished_sents[j]

\* ---------------------------------------- further claims on Gpt2Metric
\* C27: after any sequence of complete trials, top_1_error and top_k_error are
\* at most total_samples: each is the number of samples, over the ended
\* trials, whose tokens differed at one or more steps of their trial, so a
\* sample that differs at several steps counts once and one that never
\* differs counts zero.
C27_ErrorsCountSamples ==
    mpc = "batch" =>
        /\ metric.top_1_error = mrun.samples_top1
        /\ metric.top_k_error = mrun.samples_topk
        /\ metric.top_1_error <= metric.total_samples
        /\ metric.top_k_error <= metric.total_samples

\* a trial of two samples has ended: one differed in its top-1 token at two
\* steps, the other never
C27_Witness ==
    /\ mpc = "batch"
    /\ mlast.op = "end_batch"
    /\ mrun.inputs = 1
    /\ mrun.differed_twice
    /\ metric.total_samples = 2
    /\ metric.top_1_error = 1

\* C28: for every bucket key k >= 1 that print reports, the printed range
\* [2^k, 2^(k+1) - 1] contains every cache length add_latency put in bucket k.
C28_PrintedRangeContainsLength ==
    (llast # None /\ llast.calls > 0 /\ latency_key(llast.past_seq_len) >= 1) =>
        /\ latency_key(llast.past_seq_len) \in DOMAIN seq_len_latency
        /\ printed_range(latency_key(llast.past_seq_len)).lo <= llast.past_seq_len
        /\ llast.past_seq_len <= printed_range(latency_key(llast.past_seq_len)).hi

\* ---------------------------------------- further claims on ConvInteger
\* C29: the scale-product Mul whose output a rewrite's output-scale Mul
\* consumes has as inputs exactly that rewrite's own data scale and weight
\* scale, also when an earlier rewrite of the pass emitted a multiply node
\* under the same derived name.
C29_ScaleProductIsOwn ==
    (last # None /\ last.op = "ConvInteger" /\ ~ last.raised) =>
        \A m \in DOMAIN last.nodes :
            (/\ last.nodes[m].op_type = "Mul"
             /\ last.nodes[m].output = << scaled_output_name(last.node) >>) =>
                /\ \E p \in DOMAIN new_nodes : new_nodes[p].output = << last.nodes[m].input[2] >>
                /\ \A p \in DOMAIN new_nodes :
                      new_nodes[p].output = << last.nodes[m].input[2] >> =>
                          new_nodes[p].input = << ScaleName(last.node.input[1]),
                                                  ScaleName(last.node.input[2]) >>

\* ---------------------------------------- claims on test_parity
\* C30: test_parity runs the candidate backend through the IO-binding path
\* exactly when use_io_binding is true and through the plain path exactly
\* when it is false, and the buffers passed on the path used are allocated.
C30_PathFollowsFlag ==
    (parity_run # None /\ parity_run.cases > 0) =>
        /\ parity_run.path = "binded_io" <=> parity_run.use_io_binding
        /\ parity_run.path = "plain" <=> ~parity_run.use_io_binding
        /\ parity_run.path = "binded_io" => parity_run.output_buffers = "allocated"
        /\ parity_run.pc # "raised"

====
